---- MODULE Spec2Model ----
(***************************************************************************)
(* Model of the queued JSON store of GPTMart (src/unnamed/part_006): the   *)
(* in-memory DB, the write queue drained by processQueue, atomicWrite over *)
(* db.json / db.json.tmp, loadDB at start, and the admin handlers that     *)
(* call enqueueWrite.                                                      *)
(*                                                                         *)
(* One step of the model is one run-to-completion turn of the Node event   *)
(* loop: a handler runs up to its first pending await, a disk completion   *)
(* callback runs together with every continuation it makes runnable.       *)
(***************************************************************************)
EXTENDS Integers, Sequences, FiniteSets, TLC

\* ------------------------------------------------------------------ bounds
\* Number of enqueueWrite calls in one behaviour.
MaxReqs == 3

\* ------------------------------------------------------------------ paths
DB_PATH == "db.json"
TMP_PATH == "db.json.tmp"
Paths == {DB_PATH, TMP_PATH}

\* ------------------------------------------------------------------ documents
\* let DB = { settings: { title: "GPTMart" }, items: [] }
DefaultDB == [settings |-> [title |-> "GPTMart"], items |-> <<>>]

\* An item as the handlers build it: id from uuidv4, the coerced payload.
Item(id, payload) == [id |-> id, title |-> payload.title, status |-> payload.status]

\* Coerced payloads (results of coerceItemPayload on valid bodies).
PayloadA == [title |-> "a", status |-> "live"]
PayloadB == [title |-> "b", status |-> "hidden"]

\* File contents.  "json" is the text JSON.stringify produced for val,
\* "absent" is no file, "corrupt" is a file whose text is a truncated or
\* partly written serialization (JSON.parse throws on it).
NoDoc == [settings |-> [title |-> ""], items |-> <<>>]
Absent == [kind |-> "absent", val |-> NoDoc]
Corrupt == [kind |-> "corrupt", val |-> NoDoc]

\* JSON.stringify(DB, null, 2)
JSONstringify(doc) == [kind |-> "json", val |-> doc]

\* JSON.parse(raw): ok is FALSE when readFile or JSON.parse throws.
JSONparse(raw) == [ok |-> raw.kind = "json", val |-> raw.val]

\* JSON values that are not objects: null, a number.  An object is the
\* record of the properties it has, so an object lacking items is a record
\* without that field.
JsNull == [t |-> "null"]
JsNumber == [t |-> "number"]

\* DB && typeof DB === "object"
IsObject(v) == "t" \notin DOMAIN v

\* (variant: the missing properties are not filled in)
FillDefaultsNone(v) == v

\* DB.items ||= []; DB.settings ||= { title: "GPTMart" }
FillDefaults(v) ==
    [settings |-> IF "settings" \in DOMAIN v THEN v.settings ELSE [title |-> "GPTMart"],
     items    |-> IF "items" \in DOMAIN v THEN v.items ELSE <<>>]

VARIABLES
    DB,        \* the in-memory Document
    writing,   \* let writing = false
    queue,     \* const queue = []  (request indices, admission order)
    acts,      \* activations suspended at an await inside atomicWrite
    files,     \* the file system: path -> content
    reqs,      \* every enqueueWrite call so far, with its promise and response
    applied,   \* request indices in the order their mutators were executed
    nextId,    \* the next value uuidv4 returns
    phase,     \* "boot", "loading", "serving", "failed"
    loaded,    \* the Document as it stood when the server began serving
    activeTokens, \* const activeTokens = new Set()
    last,      \* the response of the last request answered without enqueueWrite
    load,      \* db.json as the process found it at its start (kept for the properties)
    srv,       \* src/server.js (lines 1-269): files, sessions, clock, last response
    p5,        \* src/unnamed/part_005: db.json, sessions, handlers, last response
    page       \* the browser pages (part_000, part_001, part_002, part_004): window and localStorage

\* The state of the queued store of part_006.
storeVars == <<DB, writing, queue, acts, files, reqs, applied, nextId, phase, loaded>>

\* The state the store's own steps leave alone: the auth and the responses
\* of part_006's other handlers, and the other programs of the repository.
ext == <<activeTokens, last, load, srv, p5, page>>

vars == <<DB, writing, queue, acts, files, reqs, applied, nextId, phase, loaded,
          activeTokens, last, load, srv, p5, page>>

\* ------------------------------------------------------------------ helpers
\* Array.prototype.findIndex, 1-based; 0 stands for -1.
FindIndex(items, id) ==
    IF \E i \in 1..Len(items) : items[i].id = id
    THEN CHOOSE i \in 1..Len(items) :
            /\ items[i].id = id
            /\ \A j \in 1..(i - 1) : items[j].id # id
    ELSE 0

\* items.filter(x => x.id !== id)
FilterOut(items, id) == SelectSeq(items, LAMBDA x : x.id # id)

ReplaceAt(s, i, t) == SubSeq(s, 1, i - 1) \o t \o SubSeq(s, i + 1, Len(s))

Ids(items) == {items[i].id : i \in 1..Len(items)}

Count(items, id) == Cardinality({i \in 1..Len(items) : items[i].id = id})

Pos(items, id) == FindIndex(items, id)

\* ------------------------------------------------------------------ mutators
\* Each mutator maps the Document to the Document it leaves behind and the
\* error it throws ("none" when it returns).

\* (variant: the item is put in front, as db.items.unshift(item) would)
CreateMutatorUnshift(item, db) ==
    [db |-> [db EXCEPT !.items = <<item>> \o @], err |-> "none"]

\* db => { db.items.push(item) }
CreateMutator(item, db) ==
    [db |-> [db EXCEPT !.items = Append(@, item)], err |-> "none"]

\* (variant: the body cannot set the properties the item already has)
SpreadKeep(item, body) ==
    [f \in DOMAIN item \cup DOMAIN body |-> IF f \in DOMAIN item THEN item[f] ELSE body[f]]

\* { ...item, ...body }: the properties of both, the body's winning.
Spread(item, body) ==
    [f \in DOMAIN item \cup DOMAIN body |-> IF f \in DOMAIN body THEN body[f] ELSE item[f]]

\* (variant: an unknown id is added to items before the throw)
UpdateMutatorUpsert(id, payload, db) ==
    LET i == FindIndex(db.items, id)
    IN  IF i = 0
        THEN [db |-> [db EXCEPT !.items = Append(@, Item(id, payload))], err |-> "NotFound"]
        ELSE [db |-> [db EXCEPT !.items[i] = Item(@.id, payload)], err |-> "none"]

\* (variant: the payload replaces the item, as db.items[i] = payload would;
\* the item is left without its id, for which 0 stands)
UpdateMutatorReplace(id, payload, db) ==
    LET i == FindIndex(db.items, id)
    IN  IF i = 0
        THEN [db |-> db, err |-> "NotFound"]
        ELSE [db |-> [db EXCEPT !.items[i] = Item(0, payload)], err |-> "none"]

\* db => { i = findIndex; if (i === -1) throw 404;
\*         db.items[i] = {...db.items[i], ...payload} }
UpdateMutator(id, payload, db) ==
    LET i == FindIndex(db.items, id)
    IN  IF i = 0
        THEN [db |-> db, err |-> "NotFound"]
        ELSE [db |-> [db EXCEPT !.items[i] = Spread(@, payload)], err |-> "none"]

\* (variant: a delete that finds its item empties the list, as
\* db.items = [] would)
DeleteMutatorAll(id, db) ==
    [db |-> [db EXCEPT !.items = IF FindIndex(@, id) = 0 THEN @ ELSE <<>>],
     err |-> IF FindIndex(db.items, id) = 0 THEN "NotFound" ELSE "none"]

\* db => { before = length; db.items = filter; if (length === before) throw 404 }
DeleteMutator(id, db) ==
    LET kept == FilterOut(db.items, id)
    IN  [db |-> [db EXCEPT !.items = kept],
         err |-> IF Len(kept) = Len(db.items) THEN "NotFound" ELSE "none"]

\* db => { db.settings.title = nextTitle }
SettingsMutator(title, db) ==
    [db |-> [db EXCEPT !.settings.title = title], err |-> "none"]

\* A caller-supplied mutator that modifies the Document and then throws:
\* db => { db.settings.title = "dirty"; throw new Error() }
DirtyMutator(db) ==
    [db |-> [db EXCEPT !.settings.title = "dirty"], err |-> "Error"]

\* mutator(DB) for the closure the request r carries.
Mutate(r, db) ==
    CASE r.kind = "create"   -> CreateMutator(Item(r.id, r.payload), db)
      [] r.kind = "update"   -> UpdateMutator(r.id, r.payload, db)
      [] r.kind = "delete"   -> DeleteMutator(r.id, db)
      [] r.kind = "settings" -> SettingsMutator(r.payload.title, db)
      [] OTHER               -> DirtyMutator(db)

\* ------------------------------------------------------------------ responses
\* res.status(err.status || 500)
ErrStatus(err) == IF err = "NotFound" THEN 404 ELSE 500

\* The status the handler sends once its await of enqueueWrite settles;
\* 0 is no response.  PUT /api/settings awaits outside any try/catch, and a
\* direct caller of enqueueWrite sends none.
Respond(kind, err) ==
    CASE kind = "create"   -> IF err = "none" THEN 201 ELSE ErrStatus(err)
      [] kind = "update"   -> IF err = "none" THEN 200 ELSE ErrStatus(err)
      [] kind = "delete"   -> IF err = "none" THEN 204 ELSE ErrStatus(err)
      [] kind = "settings" -> IF err = "none" THEN 200 ELSE 0
      [] OTHER             -> 0

\* resolve()
Resolve(rq, r) ==
    [rq EXCEPT ![r].st = "resolved", ![r].resp = Respond(rq[r].kind, "none")]

\* reject(err)
Reject(rq, r, err) ==
    [rq EXCEPT ![r].st = "rejected", ![r].err = err, ![r].resp = Respond(rq[r].kind, err)]

\* ------------------------------------------------------------------ processQueue
\* (variant: the newest entry is taken, as queue.pop() would)
ShiftLast(q) == [head |-> q[Len(q)], rest |-> SubSeq(q, 1, Len(q) - 1)]

\* const { mutator, resolve, reject } = queue.shift()
Shift(q) == [head |-> Head(q), rest |-> Tail(q)]

\* try { await mutator(DB); ... } catch: control reaches the catch block
\* exactly when the mutator threw.
Threw(out) == out.err # "none"

\* (variant: the entries behind a throwing mutator are dropped)
AfterCatchDrop(q) == <<>>

\* After the catch block the while loop goes on with the rest of the queue.
AfterCatch(q) == q

\* The synchronous run of the while loop from its condition up to the next
\* pending await: entries whose mutator throws are rejected on the spot, the
\* first entry whose mutator returns is suspended in atomicWrite with the
\* serialization of DB taken after its mutator (the await of the mutator's
\* result is a microtask turn: no handler and no disk callback runs between
\* the mutator and JSON.stringify); act is empty when the loop left through
\* `writing = false`.
\* (variant: the Document is serialized as it stood before the mutator ran)
PersistArgStale(before, after) == before

\* JSON.stringify(DB, null, 2) is evaluated after await mutator(DB) returned
PersistArg(before, after) == after

RECURSIVE RunLoop(_, _, _, _)
RunLoop(q, db, rq, ap) ==
    IF q = <<>>
    THEN [queue |-> q, DB |-> db, reqs |-> rq, applied |-> ap, act |-> <<>>]
    ELSE LET s   == Shift(q)
             r   == s.head
             out == Mutate(rq[r], db)
             ran == [rq EXCEPT ![r].before = db, ![r].after = out.db]
         IN  IF Threw(out)
             THEN RunLoop(AfterCatch(s.rest), out.db, Reject(ran, r, out.err), Append(ap, r))
             ELSE [queue |-> s.rest, DB |-> out.db,
                   reqs |-> [ran EXCEPT ![r].writes = @ + 1],
                   applied |-> Append(ap, r),
                   act |-> <<[owner |-> "loop", entry |-> r, pc |-> "write",
                              data |-> JSONstringify(PersistArg(db, out.db))]>>]

\* (variant: processQueue without its guard)
GuardOff(w) == FALSE

\* if (writing) return;
processQueueGuard(w) == w

\* (variant: the flag is not reset when the loop leaves)
WritingAfterLoopStuck == TRUE

\* writing = false  (the value the flag has once the loop has left)
WritingAfterLoop == FALSE

\* ------------------------------------------------------------------ atomicWrite
\* (variant: the data is written straight to db.json)
AtomicWriteTmpInPlace == DB_PATH

\* const tmp = TMP_PATH
AtomicWriteTmp == TMP_PATH

\* (variant: the rename is not carried out)
RenameNoop(fs, src, dst) == fs

\* fs.rename(tmp, finalPath): the file at finalPath becomes the file that
\* was at tmp, and tmp is gone.
Rename(fs, src, dst) ==
    IF src = dst THEN fs ELSE [fs EXCEPT ![dst] = fs[src], ![src] = Absent]

\* (variant: the write completes with the file cut short)
WriteFileTorn(fs, path, data) == [fs EXCEPT ![path] = Corrupt]

\* fs.writeFile(path, data) once it has completed.
WriteFile(fs, path, data) == [fs EXCEPT ![path] = data]

\* fs.writeFile(path, data) under way: the file is truncated or partly written.
WriteFileUnderWay(fs, path) == [fs EXCEPT ![path] = Corrupt]

\* ------------------------------------------------------------------ initial state
SeedDB == [settings |-> [title |-> "GPTMart"], items |-> <<Item(1, PayloadA)>>]

\* What db.json may hold when the process starts.
InitialFiles == {Absent, Corrupt, JSONstringify(DefaultDB), JSONstringify(SeedDB)}

\* No request answered yet.
NoResponse == [route |-> "none", status |-> 0, items |-> <<>>]

\* The parts of the state a specification does not exercise stay at these
\* values.
LoadIdle == [file |-> Absent]
SrvIdle == [pc |-> "off", at |-> "db", db |-> Absent, leads |-> Absent,
            sessions |-> {}, now |-> 0, nextToken |-> 1, nextId |-> 2,
            last |-> NoResponse,
            dbtmp |-> Absent, leadstmp |-> Absent, hs |-> {}, log |-> {},
            submitHits |-> [ip \in {"ip1", "ip2"} |-> <<>>],
            admits |-> [ip \in {"ip1", "ip2"} |-> <<>>]]
StorageNull == [kind |-> "null", val |-> <<>>]
PageIdle == [pc |-> "off", part |-> "none", GPTS |-> <<>>, CUSTOM_GPTS |-> <<>>,
             stored |-> StorageNull, added |-> <<>>, ev |-> "none",
             failed |-> FALSE, cleared |-> FALSE,
             winGPTS |-> "undefined", winLANGUAGES |-> "undefined",
             scripts |-> <<>>, at |-> 0, elapsed |-> 0, ret |-> "none"]
P5Idle == [pc |-> "off", db |-> Absent, last |-> NoResponse,
           sessions |-> {}, now |-> 0, nextToken |-> 1, nextId |-> 4,
           n |-> 0, hs |-> {}]

ExtIdle ==
    /\ activeTokens = {}
    /\ last = NoResponse
    /\ load = LoadIdle
    /\ srv = SrvIdle
    /\ p5 = P5Idle
    /\ page = PageIdle

Init ==
    /\ ExtIdle
    /\ DB = DefaultDB
    /\ writing = FALSE
    /\ queue = <<>>
    /\ acts = <<>>
    /\ \E c \in InitialFiles : files = [p \in Paths |-> IF p = DB_PATH THEN c ELSE Absent]
    /\ reqs = <<>>
    /\ applied = <<>>
    /\ nextId = 2
    /\ phase = "boot"
    /\ loaded = NoDoc

\* ------------------------------------------------------------------ loadDB
\* loadDB().then(() => app.listen(...)): readFile + JSON.parse.  When the
\* text parses to an object, it becomes DB with its missing items and
\* settings filled in, and the server listens.  When readFile or JSON.parse
\* throws, DB still is the default; when the text parses to something that
\* is not an object, `DB = JSON.parse(raw)` has already been carried out
\* when line 30 throws.  In both cases the catch writes JSON.stringify(DB)
\* with atomicWrite before the server listens.
LoadDB ==
    /\ phase = "boot"
    /\ LET p == JSONparse(files[DB_PATH])
       IN  IF p.ok /\ IsObject(p.val)
           THEN /\ DB' = FillDefaults(p.val)
                /\ loaded' = FillDefaults(p.val)
                /\ phase' = "serving"
                /\ acts' = acts
           ELSE /\ DB' = IF p.ok THEN p.val ELSE DB
                /\ acts' = <<[owner |-> "load", entry |-> 0, pc |-> "write",
                              data |-> JSONstringify(DB')]>>
                /\ phase' = "loading"
                /\ UNCHANGED loaded
    /\ UNCHANGED <<writing, queue, files, reqs, applied, nextId>>

\* ------------------------------------------------------------------ enqueueWrite
\* Activation i is the persist of a create request.
InFlightCreate(i) == acts[i].owner = "loop" /\ reqs[acts[i].entry].kind = "create"

\* The record of one enqueueWrite call: the closure (kind, id, payload), the
\* state of its promise (st, err), the response sent (resp), and what the
\* drain loop did with it: the Document before and after its mutator, the
\* number of atomicWrite calls made for it, and, for a create, the create
\* whose persist was in flight when it was admitted (0 if none).
NewReq(kind, id, payload) ==
    [kind |-> kind, id |-> id, payload |-> payload, st |-> "pending", err |-> "none",
     resp |-> 0, before |-> NoDoc, after |-> NoDoc, writes |-> 0,
     during |-> IF kind = "create" /\ \E i \in 1..Len(acts) : InFlightCreate(i)
                THEN acts[CHOOSE i \in 1..Len(acts) : InFlightCreate(i)].entry
                ELSE 0]

\* enqueueWrite(mutator): queue.push(entry); processQueue().
EnqueueWrite(kind, id, payload) ==
    LET r  == Len(reqs) + 1
        rq == Append(reqs, NewReq(kind, id, payload))
        q  == Append(queue, r)
    IN  IF processQueueGuard(writing)
        THEN /\ queue' = q
             /\ reqs' = rq
             /\ UNCHANGED <<DB, writing, acts, applied>>
        ELSE LET res == RunLoop(q, DB, rq, applied)
             IN  /\ queue' = res.queue
                 /\ DB' = res.DB
                 /\ reqs' = res.reqs
                 /\ applied' = res.applied
                 /\ acts' = acts \o res.act
                 /\ writing' = IF res.act = <<>> THEN WritingAfterLoop ELSE TRUE

\* The handlers below are the runs of authorized requests with valid bodies:
\* requireAuth and the validation in coerceItemPayload / PUT /api/settings
\* come before enqueueWrite and end the other requests without touching
\* the store.
Admit == phase = "serving" /\ Len(reqs) < MaxReqs

\* POST /api/gpts/create
Create(payload) ==
    /\ Admit
    /\ EnqueueWrite("create", nextId, payload)
    /\ nextId' = nextId + 1
    /\ UNCHANGED <<files, phase, loaded>>

\* PUT /api/gpts/update/:id
Update(id, payload) ==
    /\ Admit
    /\ EnqueueWrite("update", id, payload)
    /\ UNCHANGED <<files, nextId, phase, loaded>>

\* DELETE /api/gpts/delete/:id
Delete(id) ==
    /\ Admit
    /\ EnqueueWrite("delete", id, PayloadA)
    /\ UNCHANGED <<files, nextId, phase, loaded>>

\* PUT /api/settings
Settings(title) ==
    /\ Admit
    /\ EnqueueWrite("settings", 0, [title |-> title, status |-> "live"])
    /\ UNCHANGED <<files, nextId, phase, loaded>>

\* enqueueWrite called with a mutator that modifies the Document and throws.
Dirty ==
    /\ Admit
    /\ EnqueueWrite("dirty", 0, PayloadA)
    /\ UNCHANGED <<files, nextId, phase, loaded>>

\* ------------------------------------------------------------------ disk completions
\* (variant: app.listen is called however loadDB settled)
ThenListenAlways(err) == "serving"

\* loadDB().then(() => app.listen(PORT)): no listen when loadDB rejected
ThenListen(err) == IF err = "none" THEN "serving" ELSE "failed"

\* (variant: the catch block puts the Document back as the mutator found it)
CatchRollback(db, before) == before

\* catch (err) { reject(err); }: the Document stays as the mutator left it
Catch(db, before) == db

\* The continuation of the caller of atomicWrite once atomicWrite has
\* settled for activation i: processQueue resolves or rejects the entry and
\* runs on; loadDB lets the server listen, or rejects and it never does.
Continue(i, err) ==
    IF acts[i].owner = "loop"
    THEN LET r   == acts[i].entry
             rq  == IF err = "none" THEN Resolve(reqs, r) ELSE Reject(reqs, r, err)
             db  == IF err = "none" THEN DB ELSE Catch(DB, reqs[r].before)
             res == RunLoop(queue, db, rq, applied)
         IN  /\ queue' = res.queue
             /\ DB' = res.DB
             /\ reqs' = res.reqs
             /\ applied' = res.applied
             /\ acts' = ReplaceAt(acts, i, res.act)
             /\ writing' = IF res.act = <<>> THEN WritingAfterLoop ELSE writing
             /\ UNCHANGED <<phase, loaded>>
    ELSE /\ acts' = ReplaceAt(acts, i, <<>>)
         /\ phase' = ThenListen(err)
         /\ loaded' = IF err = "none" THEN DB ELSE loaded
         /\ UNCHANGED <<DB, writing, queue, reqs, applied>>

\* fs.writeFile has begun to write the temp file.
FsWriteUnderWay(i) ==
    /\ acts[i].pc = "write"
    /\ files[AtomicWriteTmp] # Corrupt
    /\ files' = WriteFileUnderWay(files, AtomicWriteTmp)
    /\ UNCHANGED <<DB, writing, queue, acts, reqs, applied, nextId, phase, loaded>>

\* await fs.writeFile(tmp, data) completes; fs.rename is issued.
FsWriteDone(i) ==
    /\ acts[i].pc = "write"
    /\ files' = WriteFile(files, AtomicWriteTmp, acts[i].data)
    /\ acts' = [acts EXCEPT ![i].pc = "rename"]
    /\ UNCHANGED <<DB, writing, queue, reqs, applied, nextId, phase, loaded>>

\* await fs.writeFile(tmp, data) throws.
FsWriteFail(i) ==
    /\ acts[i].pc = "write"
    /\ Continue(i, "EIO")
    /\ UNCHANGED <<files, nextId>>

\* await fs.rename(tmp, finalPath) completes.
FsRenameDone(i) ==
    /\ acts[i].pc = "rename"
    /\ files[AtomicWriteTmp] # Absent
    /\ files' = Rename(files, AtomicWriteTmp, DB_PATH)
    /\ Continue(i, "none")
    /\ UNCHANGED <<nextId>>

\* await fs.rename(tmp, finalPath) throws.
FsRenameFail(i) ==
    /\ acts[i].pc = "rename"
    /\ Continue(i, "EIO")
    /\ UNCHANGED <<files, nextId>>

\* ------------------------------------------------------------------ crash
\* The process is killed and started again: memory is back to its module
\* initial values, the files stay; a rename that was in flight has been
\* carried out by the file system or not.
CrashFiles ==
    {files} \cup {Rename(files, AtomicWriteTmp, DB_PATH) :
                    i \in {j \in 1..Len(acts) : acts[j].pc = "rename"
                                                /\ files[AtomicWriteTmp] # Absent}}

Crash ==
    /\ phase # "boot"
    /\ \E f \in CrashFiles : files' = f
    /\ DB' = DefaultDB
    /\ writing' = FALSE
    /\ queue' = <<>>
    /\ acts' = <<>>
    /\ reqs' = [r \in 1..Len(reqs) |->
                  IF reqs[r].st = "pending" THEN [reqs[r] EXCEPT !.st = "lost"] ELSE reqs[r]]
    /\ phase' = "boot"
    /\ UNCHANGED <<applied, nextId, loaded>>

\* ------------------------------------------------------------------ specification
CreatePayloads == {PayloadA}
UpdatePayloads == {PayloadB}

\* ids a client can put in a URL: every id issued so far, and 0, which no
\* item ever carries.
TargetIds == 0..(nextId - 1)

Next ==
    \/ LoadDB /\ UNCHANGED ext
    \/ \E p \in CreatePayloads : Create(p) /\ UNCHANGED ext
    \/ \E id \in TargetIds, p \in UpdatePayloads : Update(id, p) /\ UNCHANGED ext
    \/ \E id \in TargetIds : Delete(id) /\ UNCHANGED ext
    \/ Settings("Mart") /\ UNCHANGED ext
    \/ Dirty /\ UNCHANGED ext
    \/ \E i \in 1..Len(acts) : FsWriteUnderWay(i) /\ UNCHANGED ext
    \/ \E i \in 1..Len(acts) : FsWriteDone(i) /\ UNCHANGED ext
    \/ \E i \in 1..Len(acts) : FsWriteFail(i) /\ UNCHANGED ext
    \/ \E i \in 1..Len(acts) : FsRenameDone(i) /\ UNCHANGED ext
    \/ \E i \in 1..Len(acts) : FsRenameFail(i) /\ UNCHANGED ext

\* The running server (the process is not killed).
Spec == Init /\ [][Next]_vars

\* The same program when the process may be killed and restarted, under
\* the requests of the item handlers.
NextCrash ==
    \/ LoadDB /\ UNCHANGED ext
    \/ \E p \in CreatePayloads : Create(p) /\ UNCHANGED ext
    \/ \E id \in TargetIds, p \in UpdatePayloads : Update(id, p) /\ UNCHANGED ext
    \/ \E id \in TargetIds : Delete(id) /\ UNCHANGED ext
    \/ \E i \in 1..Len(acts) : FsWriteUnderWay(i) /\ UNCHANGED ext
    \/ \E i \in 1..Len(acts) : FsWriteDone(i) /\ UNCHANGED ext
    \/ \E i \in 1..Len(acts) : FsWriteFail(i) /\ UNCHANGED ext
    \/ \E i \in 1..Len(acts) : FsRenameDone(i) /\ UNCHANGED ext
    \/ \E i \in 1..Len(acts) : FsRenameFail(i) /\ UNCHANGED ext
    \/ Crash /\ UNCHANGED ext

CrashSpec == Init /\ [][NextCrash]_vars

\* The drain loop when every disk operation that was issued eventually
\* completes, with success or with failure, and the process is not killed.
\* processQueue depends on a mutator only through whether it returns or
\* throws: the create handler (returns) and the delete handler (returns, or
\* throws for an unknown id) give both, with every outcome of the persist.
NextLive ==
    \/ LoadDB /\ UNCHANGED ext
    \/ \E p \in CreatePayloads : Create(p) /\ UNCHANGED ext
    \/ \E id \in TargetIds : Delete(id) /\ UNCHANGED ext
    \/ \E i \in 1..Len(acts) : FsWriteUnderWay(i) /\ UNCHANGED ext
    \/ \E i \in 1..Len(acts) : FsWriteDone(i) /\ UNCHANGED ext
    \/ \E i \in 1..Len(acts) : FsWriteFail(i) /\ UNCHANGED ext
    \/ \E i \in 1..Len(acts) : FsRenameDone(i) /\ UNCHANGED ext
    \/ \E i \in 1..Len(acts) : FsRenameFail(i) /\ UNCHANGED ext

LiveSpec ==
    /\ Init
    /\ [][NextLive]_vars
    /\ WF_vars(LoadDB /\ UNCHANGED ext)
    /\ WF_vars((\E i \in 1..Len(acts) : FsWriteDone(i) \/ FsWriteFail(i))
                   /\ UNCHANGED ext)
    /\ WF_vars((\E i \in 1..Len(acts) : FsRenameDone(i) \/ FsRenameFail(i))
                   /\ UNCHANGED ext)

\* ------------------------------------------------------------------ properties
Range(s) == {s[i] : i \in 1..Len(s)}

LoopActs == {i \in 1..Len(acts) : acts[i].owner = "loop"}

Settled(r) == reqs[r].st \in {"resolved", "rejected"}

\* The mutator of r threw (its promise was rejected by the catch after the
\* mutator, not after atomicWrite).
Thrown(r) == reqs[r].st = "rejected" /\ reqs[r].err \notin {"none", "EIO"}

\* C1: mutators run in the order of the enqueueWrite calls: the sequence of
\* executed mutators is increasing in admission order, and when the mutator
\* of an entry has run, every entry admitted before it has had its mutator
\* run and its promise settled (its persist succeeded or failed).
C1_FifoOrder ==
    /\ \A i, j \in 1..Len(applied) : i < j => applied[i] < applied[j]
    /\ \A r \in Range(applied) : \A k \in 1..(r - 1) :
          k \in Range(applied) /\ Settled(k)

\* Entry 2 is being renamed while entry 3 waits in the queue behind it.
C1_Witness ==
    /\ applied = <<1, 2>>
    /\ queue = <<3>>
    /\ \E i \in LoopActs : acts[i].entry = 2 /\ acts[i].pc = "rename"

\* C2: at most one drain loop is past the `writing` guard, hence at most one
\* atomicWrite of the loop is in progress, and the flag is set while it is;
\* an enqueueWrite made while the loop is suspended in a persist only
\* appends its entry to the queue: no mutator runs, no activation starts.
C2_OneLoop == Cardinality(LoopActs) <= 1 /\ (LoopActs # {} => writing)

C2_EnqueueOnlyAppends ==
    (LoopActs # {} /\ Len(reqs') = Len(reqs) + 1)
        => /\ queue' = Append(queue, Len(reqs'))
           /\ UNCHANGED <<DB, acts, applied, writing, files>>
           /\ reqs'[Len(reqs')].st = "pending"

C2_SingleDrain == []C2_OneLoop /\ [][C2_EnqueueOnlyAppends]_vars

\* Two entries wait in the queue while a persist is awaiting the disk.
C2_Witness == LoopActs # {} /\ Len(queue) = 2 /\ writing

\* C3: a promise is resolved only in the step in which the rename of its
\* entry completes: at that moment the mutator has run, db.json holds the
\* serialization of the Document as that mutator left it and the temp file
\* is gone; a 2xx response is only ever sent for a resolved promise.
C3_ResolveStep ==
    /\ \A r \in DOMAIN reqs :
          (reqs[r].st = "pending" /\ reqs'[r].st = "resolved")
              => /\ r \in Range(applied)
                 /\ \E i \in LoopActs : acts[i].entry = r /\ acts[i].pc = "rename"
                 /\ files'[DB_PATH] = JSONstringify(reqs[r].after)
                 /\ files'[TMP_PATH] = Absent
    /\ \A r \in DOMAIN reqs' :
          reqs'[r].resp \in {200, 201, 204} => reqs'[r].st = "resolved"

C3_ResolvedAfterPersist == [][C3_ResolveStep]_vars

\* A create was answered 201 and db.json holds the item.
C3_Witness ==
    \E r \in DOMAIN reqs :
        /\ reqs[r].kind = "create" /\ reqs[r].resp = 201
        /\ reqs[r].id \in Ids(files[DB_PATH].val.items)

\* The Document obtained from db by applying, in the order of the calls, the
\* mutators of the requests from index i on whose promises resolved.
RECURSIVE ReplayResolved(_, _, _)
ReplayResolved(rq, i, db) ==
    IF i > Len(rq) THEN db
    ELSE ReplayResolved(rq, i + 1,
                        IF rq[i].st = "resolved" THEN Mutate(rq[i], db).db ELSE db)

Drained == phase = "serving" /\ queue = <<>> /\ acts = <<>>

\* C4: once the queue is drained, the Document in db.json is the loaded
\* Document with exactly the mutators whose promises resolved applied to
\* it, in the order of the calls.  Stated for the calls the handlers make
\* (mutators that throw do so before modifying anything), with persists
\* that succeed or fail.
C4_DiskIsReplayOfResolved ==
    (Drained /\ \A r \in DOMAIN reqs : reqs[r].kind # "dirty")
        => files[DB_PATH] = JSONstringify(ReplayResolved(reqs, 1, loaded))

\* C5: for a create B admitted while the persist of an earlier create A was
\* in flight: if neither persist failed, both promises resolve once settled;
\* and once both are resolved (and no delete names either id) A and B are
\* each exactly once in items, A before B, in memory and in db.json.
C5_ConcurrentCreates ==
    \A b \in DOMAIN reqs :
        LET a == reqs[b].during
        IN  a # 0 =>
              /\ (Settled(a) /\ Settled(b) /\ reqs[a].err # "EIO" /\ reqs[b].err # "EIO")
                    => (reqs[a].st = "resolved" /\ reqs[b].st = "resolved")
              /\ ( /\ reqs[a].st = "resolved"
                   /\ reqs[b].st = "resolved"
                   /\ \A d \in DOMAIN reqs :
                         reqs[d].kind = "delete" => reqs[d].id \notin {reqs[a].id, reqs[b].id} )
                    => \A items \in {DB.items, files[DB_PATH].val.items} :
                          /\ Count(items, reqs[a].id) = 1
                          /\ Count(items, reqs[b].id) = 1
                          /\ Pos(items, reqs[a].id) < Pos(items, reqs[b].id)

\* Create B was admitted during the persist of create A and both resolved.
C5_Witness ==
    \E b \in DOMAIN reqs :
        /\ reqs[b].during # 0
        /\ reqs[b].st = "resolved"
        /\ reqs[reqs[b].during].st = "resolved"
        /\ Len(files[DB_PATH].val.items) >= 2

\* C6: db.json only ever changes, in one step, from its content to the
\* complete serialization handed to an atomicWrite whose rename was under
\* way; this covers the steps of a write to the temp file and a kill at
\* any point (a kill with the rename not carried out leaves db.json as it
\* was).  The loadDB that follows a restart reads exactly what db.json holds.
C6_Step ==
    /\ \/ files'[DB_PATH] = files[DB_PATH]
       \/ \E i \in 1..Len(acts) :
             /\ acts[i].pc = "rename"
             /\ acts[i].data.kind = "json"
             /\ files'[DB_PATH] = acts[i].data
    /\ (phase = "boot" /\ files[DB_PATH].kind = "json")
          => (phase' = "serving" /\ DB' = files[DB_PATH].val /\ files' = files)

C6_AtomicReplace == [][C6_Step]_vars

\* A request was lost to a kill after its temp file was written and before
\* the rename; db.json still holds the Document from before its mutator and
\* the restarted server has loaded that Document.
C6_Witness ==
    \E r \in DOMAIN reqs :
        /\ reqs[r].st = "lost"
        /\ reqs[r].writes = 1
        /\ reqs[r].after # reqs[r].before
        /\ files[TMP_PATH] = JSONstringify(reqs[r].after)
        /\ files[DB_PATH] = JSONstringify(reqs[r].before)
        /\ phase = "serving"
        /\ DB = reqs[r].before

\* C7: when every disk operation eventually completes and the process is
\* not killed, every entry passed to enqueueWrite eventually has had its
\* mutator run and its promise settled.
C7_EveryEntrySettles ==
    \A r \in 1..MaxReqs :
        (Len(reqs) >= r) ~> (Len(reqs) >= r /\ Settled(r) /\ r \in Range(applied))

\* Create 3 was admitted while create 1 was being persisted, behind a
\* delete that then threw; all three are settled and the loop has left.
C7_Witness ==
    /\ Len(reqs) >= 3
    /\ reqs[3].during = 1
    /\ Settled(1) /\ Thrown(2) /\ reqs[3].st = "resolved"
    /\ ~writing

\* C8: when the mutator of an entry throws, its promise is rejected with
\* the error thrown, no atomicWrite is made for the entry, and every entry
\* behind it that is still pending is either being persisted or waits in
\* the queue of a running drain loop.
C8_ThrowSkipsPersist ==
    \A r \in DOMAIN reqs :
        Thrown(r) =>
            /\ reqs[r].err = Mutate(reqs[r], reqs[r].before).err
            /\ reqs[r].writes = 0
            /\ \A i \in 1..Len(acts) : acts[i].entry # r
            /\ \A k \in (r + 1)..Len(reqs) :
                  reqs[k].st = "pending" =>
                      \/ \E i \in LoopActs : acts[i].entry = k
                      \/ (k \in Range(queue) /\ LoopActs # {})

\* An update of an unknown id was queued behind the persist of create 1
\* and ahead of create 3; it was rejected and create 3 went on to resolve.
C8_Witness ==
    /\ Len(reqs) >= 3
    /\ reqs[3].during = 1
    /\ reqs[2].err = "NotFound"
    /\ reqs[2].writes = 0
    /\ reqs[3].st = "resolved"

\* C9: once the promise of a mutator that threw has been rejected, none of
\* its modifications is in the in-memory Document or in db.json.
C9_ThrowLeavesNoTrace ==
    \A r \in DOMAIN reqs :
        Thrown(r) =>
            /\ reqs[r].after = reqs[r].before
            /\ reqs[r].kind = "dirty" =>
                  /\ DB.settings.title # "dirty"
                  /\ files[DB_PATH].val.settings.title # "dirty"

\* C10: an update or delete whose id no item carries is rejected with the
\* not-found error and answered 404; its mutator leaves the Document
\* (settings, items and their order) as it found it and no atomicWrite is
\* made for it, so db.json is not written on its behalf.
C10_NotFoundChangesNothing ==
    \A r \in Range(applied) :
        (reqs[r].kind \in {"update", "delete"} /\ reqs[r].id \notin Ids(reqs[r].before.items))
            => /\ reqs[r].st = "rejected"
               /\ reqs[r].err = "NotFound"
               /\ reqs[r].resp = 404
               /\ reqs[r].after = reqs[r].before
               /\ reqs[r].writes = 0
               /\ \A i \in 1..Len(acts) : acts[i].entry # r

\* A delete of an unknown id was answered 404 on a store that holds items.
C10_Witness ==
    \E r \in DOMAIN reqs :
        /\ reqs[r].kind = "delete"
        /\ reqs[r].resp = 404
        /\ Len(reqs[r].before.items) >= 1
        /\ DB.items = reqs[r].before.items

\* ------------------------------------------------------------------ C11..C20
\* The place of x in the sequence s of distinct values (0 when absent).
IndexIn(s, x) == IF \E i \in 1..Len(s) : s[i] = x
                 THEN CHOOSE i \in 1..Len(s) : s[i] = x
                 ELSE 0

\* The entries whose persist failed.
PersistFailed(r) == reqs[r].st = "rejected" /\ reqs[r].err = "EIO"

\* The resolved entries none of which is followed by a resolved one.
LastResolved ==
    {r \in DOMAIN reqs :
        /\ reqs[r].st = "resolved"
        /\ \A k \in DOMAIN reqs : (reqs[k].st = "resolved") => IndexIn(applied, k) <= IndexIn(applied, r)}

\* C11: when the persist of an entry fails, that entry is rejected and only
\* an entry whose own persist failed is; atomicWrite was called once for it
\* and is not called again (no retry); the Document keeps what its mutator
\* did (the next mutator starts from it, or DB still is it); the entries
\* queued behind it are still processed; and db.json holds what the latest
\* successful persist wrote, the whole Document after that entry's mutator,
\* which is built on the failed entry's effect.
C11_PersistFailureKeepsEffect ==
    /\ \A r \in DOMAIN reqs :
          PersistFailed(r) =>
              /\ reqs[r].writes = 1
              /\ r \notin Range(queue)
              /\ \A i \in LoopActs : acts[i].entry # r
              /\ LET p == IndexIn(applied, r)
                 IN  /\ p > 0
                     /\ IF p = Len(applied)
                        THEN DB = reqs[r].after
                        ELSE reqs[applied[p + 1]].before = reqs[r].after
              /\ \A k \in DOMAIN reqs :
                    (k > r /\ reqs[k].st = "pending")
                        => /\ LoopActs # {}
                           /\ \/ k \in Range(queue)
                              \/ \E i \in LoopActs : acts[i].entry = k
    /\ \A p \in 1..(Len(applied) - 1) :
          reqs[applied[p + 1]].before = reqs[applied[p]].after
    /\ \A k \in LastResolved : files[DB_PATH] = JSONstringify(reqs[k].after)

\* A create was rejected because its persist failed, a later entry resolved,
\* and db.json holds the item of the rejected create.
C11_Witness ==
    \E r, k \in DOMAIN reqs :
        /\ r < k
        /\ PersistFailed(r)
        /\ reqs[r].kind = "create"
        /\ reqs[k].st = "resolved"
        /\ reqs[k].before = reqs[r].after
        /\ files[DB_PATH].kind = "json"
        /\ reqs[r].id \in Ids(files[DB_PATH].val.items)

\* The entries whose promise is resolved in this step; their callers run
\* next, with the state this step leaves.
ResolvedNow == {r \in DOMAIN reqs : reqs[r].st = "pending" /\ reqs'[r].st = "resolved"}

\* C12 (as stated): whenever a caller observes its promise resolved, the
\* Document read back from db.json equals the in-memory Document, also for a
\* caller whose entry has further entries queued behind it.
C12_RoundTripStep ==
    \A r \in ResolvedNow : JSONparse(files'[DB_PATH]) = [ok |-> TRUE, val |-> DB']

C12_RoundTripAlways == [][C12_RoundTripStep]_vars

\* C12 (amended): whenever a caller observes its promise resolved, the
\* Document read back from db.json is the Document as the caller's own
\* mutator left it; it equals the in-memory Document when no entry was
\* queued behind the caller's, and otherwise the in-memory Document is
\* already that Document with the mutators of the entries run since applied.
C12_RoundTripAmendedStep ==
    \A r \in ResolvedNow :
        /\ JSONparse(files'[DB_PATH]) = [ok |-> TRUE, val |-> reqs[r].after]
        /\ queue = <<>> => JSONparse(files'[DB_PATH]) = [ok |-> TRUE, val |-> DB']
        /\ queue # <<>> =>
              /\ reqs'[Head(queue)].before = reqs[r].after
              /\ DB' = reqs'[applied'[Len(applied')]].after

C12_RoundTripWhenNothingQueued == [][C12_RoundTripAmendedStep]_vars

\* A create resolved with nothing queued behind it: db.json and the
\* in-memory Document agree and hold its item.
C12_Witness ==
    \E r \in DOMAIN reqs :
        /\ reqs[r].kind = "create" /\ reqs[r].st = "resolved"
        /\ applied[Len(applied)] = r
        /\ queue = <<>> /\ acts = <<>>
        /\ JSONparse(files[DB_PATH]) = [ok |-> TRUE, val |-> DB]
        /\ reqs[r].id \in Ids(DB.items)

\* The activations of atomicWrite made for entry r.
ActsOf(r) == {i \in LoopActs : acts[i].entry = r}

\* C13: an entry whose mutator returned has had atomicWrite called for it
\* exactly once (one temp write, then one rename) and an entry whose mutator
\* threw never; the data handed to atomicWrite is the serialization of the
\* Document as that entry's mutator left it, which is what lies in the temp
\* file at the rename; it holds the item of no create admitted later.
C13_OneWritePerEntry ==
    \A r \in Range(applied) :
        /\ reqs[r].writes = IF Thrown(r) THEN 0 ELSE 1
        /\ Cardinality(ActsOf(r)) <= 1
        /\ Settled(r) => ActsOf(r) = {}
        /\ ~Thrown(r) =>
              /\ reqs[r].after = Mutate(reqs[r], reqs[r].before).db
              /\ \A i \in ActsOf(r) :
                    /\ acts[i].data = JSONstringify(reqs[r].after)
                    /\ acts[i].pc = "rename" => files[TMP_PATH] = acts[i].data
              /\ reqs[r].st = "pending" => ActsOf(r) # {}
              /\ \A k \in DOMAIN reqs :
                    (k > r /\ reqs[k].kind = "create")
                        => /\ reqs[k].id \notin Ids(reqs[r].after.items)
                           /\ \A i \in ActsOf(r) :
                                 reqs[k].id \notin Ids(acts[i].data.val.items)

\* The temp file written for a create waits for its rename while a later
\* create is queued: it holds the first item and not the second.
C13_Witness ==
    \E r, k \in DOMAIN reqs :
        /\ r < k
        /\ reqs[r].kind = "create" /\ reqs[k].kind = "create"
        /\ k \in Range(queue)
        /\ \E i \in ActsOf(r) :
              /\ acts[i].pc = "rename"
              /\ files[TMP_PATH] = JSONstringify(reqs[r].after)
              /\ reqs[r].id \in Ids(files[TMP_PATH].val.items)

\* ------------------------------------------------------------------ GET /api/gpts/public
\* x => x.status === "live"
Live(x) == "status" \in DOMAIN x /\ x.status = "live"

\* (variant: the listing returns every item)
PublicItemsAll(items) == items

\* DB.items.filter(x => x.status === "live")
PublicItems(items) == SelectSeq(items, Live)

\* app.get("/api/gpts/public"): no auth, no enqueueWrite.  When DB has no
\* items array (DB is null or a number) DB.items.filter throws and the
\* framework answers 500.
GetPublic ==
    /\ phase = "serving"
    /\ last' = IF IsObject(DB) /\ "items" \in DOMAIN DB
               THEN [route |-> "public", status |-> 200, items |-> PublicItems(DB.items)]
               ELSE [route |-> "public", status |-> 500, items |-> <<>>]
    /\ UNCHANGED <<storeVars, activeTokens, load, srv, p5, page>>

\* ------------------------------------------------------------------ server.js: startServer
\* Lines 1-269 of src/server.js.  srv.db and srv.leads are the contents of
\* its db.json and leads.json, srv.dbtmp and srv.leadstmp those of the temp
\* files of writeJSON, srv.hs the handlers suspended at an await and srv.log
\* the responses they have sent; srv.pc is where startServer stands: "read"
\* and "write" inside readJSON for the file srv.at, then "listening", or
\* "failed" when startServer rejected.
LeadsEmpty == [leads |-> <<>>]

\* The fallback readJSON is given at lines 30-31.
SrvFallback(f) == IF f = "db" THEN DefaultDB ELSE LeadsEmpty

SrvBoot(db, leads) == [SrvIdle EXCEPT !.pc = "read", !.db = db, !.leads = leads]

\* What follows the readJSON of file f: the next readJSON, then
\* http.createServer and server.listen.
SrvAfterRead(f) == IF f = "db" THEN [pc |-> "read", at |-> "leads"]
                   ELSE [pc |-> "listening", at |-> "leads"]

\* try { return JSON.parse(await fs.readFile(file, 'utf8')); }
SrvReadJSON ==
    /\ srv.pc = "read"
    /\ srv' = IF JSONparse(srv[srv.at]).ok
              THEN [srv EXCEPT !.pc = SrvAfterRead(srv.at).pc, !.at = SrvAfterRead(srv.at).at]
              ELSE [srv EXCEPT !.pc = "write"]
    /\ UNCHANGED <<storeVars, activeTokens, last, load, p5, page>>

\* catch { await fs.writeFile(file, JSON.stringify(fallback, null, 2)) ... }:
\* the write, in place, is under way.
SrvWriteUnderWay ==
    /\ srv.pc = "write"
    /\ srv[srv.at] # Corrupt
    /\ srv' = [srv EXCEPT ![srv.at] = Corrupt]
    /\ UNCHANGED <<storeVars, activeTokens, last, load, p5, page>>

\* ... the write completed; readJSON returns the fallback.
SrvWriteDone ==
    /\ srv.pc = "write"
    /\ srv' = [srv EXCEPT ![srv.at] = JSONstringify(SrvFallback(srv.at)),
                          !.pc = SrvAfterRead(srv.at).pc,
                          !.at = SrvAfterRead(srv.at).at]
    /\ UNCHANGED <<storeVars, activeTokens, last, load, p5, page>>

\* ... the write failed: readJSON throws, startServer rejects and
\* startServer().catch logs the error; server.listen is never reached.
SrvWriteFail ==
    /\ srv.pc = "write"
    /\ srv' = [srv EXCEPT !.pc = "failed"]
    /\ UNCHANGED <<storeVars, activeTokens, last, load, p5, page>>

\* GET /api/gpts/public of server.js: readJSON(DB_PATH, { items: [] }) and
\* the filter.  An unreadable db.json is overwritten with the fallback; when
\* that write fails the handler throws and nothing is answered.
SrvGetPublic ==
    /\ srv.pc = "listening"
    /\ LET p == JSONparse(srv.db)
       IN  \/ /\ p.ok
              /\ srv' = [srv EXCEPT !.last =
                            [route |-> "public", status |-> 200,
                             items |-> IF "items" \in DOMAIN p.val
                                       THEN PublicItems(p.val.items) ELSE <<>>]]
           \/ /\ ~p.ok
              /\ srv' = [srv EXCEPT !.db = JSONstringify([items |-> <<>>]),
                                    !.last = [route |-> "public", status |-> 200,
                                              items |-> <<>>]]
           \/ /\ ~p.ok
              /\ srv' = [srv EXCEPT !.db = Corrupt, !.last = NoResponse]
    /\ UNCHANGED <<storeVars, activeTokens, last, load, p5, page>>

\* ------------------------------------------------------------------ the two servers starting
\* What the db.json of part_006 may hold when the process starts: no file,
\* text that does not parse, null, a number, objects with and without
\* settings and items.
AnyFiles ==
    InitialFiles \cup
    {JSONstringify(JsNull), JSONstringify(JsNumber),
     JSONstringify([items |-> SeedDB.items]),
     JSONstringify([settings |-> [title |-> "Mart"]])}

SrvFiles == {Absent, Corrupt, JSONstringify(SeedDB)}
SrvLeadsFiles == {Absent, Corrupt, JSONstringify(LeadsEmpty)}

StartInit ==
    /\ DB = DefaultDB
    /\ writing = FALSE
    /\ queue = <<>>
    /\ acts = <<>>
    /\ \E c \in AnyFiles, t \in {Absent, Corrupt} :
          files = [p \in Paths |-> IF p = DB_PATH THEN c ELSE t]
    /\ reqs = <<>>
    /\ applied = <<>>
    /\ nextId = 2
    /\ phase = "boot"
    /\ loaded = NoDoc
    /\ activeTokens = {}
    /\ last = NoResponse
    /\ load = [file |-> files[DB_PATH]]
    /\ \E d \in SrvFiles, l \in SrvLeadsFiles : srv = SrvBoot(d, l)
    /\ p5 = P5Idle
    /\ page = PageIdle

StartNext ==
    \/ LoadDB /\ UNCHANGED ext
    \/ \E i \in 1..Len(acts) : FsWriteUnderWay(i) /\ UNCHANGED ext
    \/ \E i \in 1..Len(acts) : FsWriteDone(i) /\ UNCHANGED ext
    \/ \E i \in 1..Len(acts) : FsWriteFail(i) /\ UNCHANGED ext
    \/ \E i \in 1..Len(acts) : FsRenameDone(i) /\ UNCHANGED ext
    \/ \E i \in 1..Len(acts) : FsRenameFail(i) /\ UNCHANGED ext
    \/ GetPublic
    \/ SrvReadJSON
    \/ SrvWriteUnderWay
    \/ SrvWriteDone
    \/ SrvWriteFail
    \/ SrvGetPublic

StartSpec == StartInit /\ [][StartNext]_vars

\* ------------------------------------------------------------------ C14, C15
\* An object with a settings mapping and an items sequence.
IsDocument(v) == IsObject(v) /\ {"settings", "items"} \subseteq DOMAIN v

\* C14: once loadDB has completed, whatever db.json held (no file, text
\* that does not parse, null, a number, an object lacking settings or
\* items), DB is an object with settings and items; and when the file was
\* absent or did not parse, DB and db.json both hold the default Document.
C14_LoadYieldsDocument ==
    phase = "serving" =>
        /\ IsDocument(DB)
        /\ load.file \in {Absent, Corrupt} =>
              /\ DB = DefaultDB
              /\ files[DB_PATH] = JSONstringify(DefaultDB)

\* C15: a server answers requests only once it listens, and it listens
\* only after its initial load has completed.  part_006: the server starts
\* serving in the step in which loadDB returns (db.json was read, or the
\* rename of the written file is done); when the write fails it is "failed"
\* for good and answers nothing.  server.js: server.listen follows the two
\* readJSON calls, so db.json and leads.json both parse when it listens;
\* when the write of a default file fails, startServer has rejected, nothing
\* changes any more and no request is answered.
C15_Step ==
    /\ (phase # "serving" /\ phase' = "serving")
          => /\ acts' = <<>>
             /\ JSONparse(files'[DB_PATH]).ok
             /\ \/ phase = "boot" /\ files' = files
                \/ /\ phase = "loading"
                   /\ files'[DB_PATH] = JSONstringify(DB')
                   /\ files'[TMP_PATH] = Absent
    /\ (phase = "loading" /\ files' = files /\ acts' # acts) => phase' = "failed"
    /\ phase = "failed" => (phase' = "failed" /\ last' = last)
    /\ last' # last => (phase = "serving" /\ phase' = "serving")
    /\ (srv.pc # "listening" /\ srv'.pc = "listening")
          => /\ JSONparse(srv'.db).ok
             /\ JSONparse(srv'.leads).ok
             /\ srv.at = "leads"
    /\ srv.pc = "failed" => srv' = srv
    /\ srv'.last # srv.last => (srv.pc = "listening" /\ srv'.pc = "listening")

C15_ListenAfterLoad == [][C15_Step]_vars

\* Both servers answered a request after writing their default db.json,
\* which was missing.
C15_Witness ==
    /\ load.file = Absent
    /\ phase = "serving"
    /\ files[DB_PATH] = JSONstringify(DefaultDB)
    /\ last.status = 200
    /\ srv.pc = "listening"
    /\ srv.db = JSONstringify(DefaultDB)
    /\ srv.last.status = 200

\* ------------------------------------------------------------------ C16..C20
\* No two items of the sequence carry the same id.
DistinctIds(items) ==
    \A i, j \in 1..Len(items) : i # j => items[i].id # items[j].id

\* C16: uuidv4 never repeating a value and the loaded items carrying
\* distinct ids, the ids of the items are pairwise distinct after every
\* create, update, delete and settings mutator, in memory and in what is
\* written to db.json; an update leaves the ids as they were; and an id
\* that a delete removed is carried by no item of any later Document.
C16_IdsStayDistinct ==
    /\ DistinctIds(DB.items)
    /\ files[DB_PATH].kind = "json" => DistinctIds(files[DB_PATH].val.items)
    /\ \A r \in Range(applied) :
          /\ DistinctIds(reqs[r].after.items)
          /\ (reqs[r].kind \in {"update", "settings"} /\ ~Thrown(r))
                => [i \in 1..Len(reqs[r].after.items) |-> reqs[r].after.items[i].id]
                     = [i \in 1..Len(reqs[r].before.items) |-> reqs[r].before.items[i].id]
          /\ (reqs[r].kind = "create")
                => reqs[r].id \notin Ids(reqs[r].before.items)
          /\ (reqs[r].kind = "delete" /\ ~Thrown(r))
                => /\ reqs[r].id \notin Ids(DB.items)
                   /\ \A k \in Range(applied) :
                         IndexIn(applied, k) >= IndexIn(applied, r)
                             => reqs[r].id \notin Ids(reqs[k].after.items)

\* An item was deleted and two items were created since: the store holds
\* the two, and not the deleted one.
C16_Witness ==
    /\ Len(DB.items) = 2
    /\ \E r, k \in Range(applied) :
          /\ r < k
          /\ reqs[r].kind = "delete" /\ reqs[r].st = "resolved"
          /\ reqs[k].kind = "create" /\ reqs[k].st = "resolved"
          /\ reqs[k].id \in Ids(DB.items)
          /\ reqs[r].id \notin Ids(DB.items)

\* ------------------------------------------------------------------ part_006: requireAuth, login
MaxTokens == 1

\* The requests the handlers hand to enqueueWrite in the specification of
\* the HTTP interface.
MaxApiReqs == 1

\* const OWNER_PIN = process.env.OWNER_PIN || "0000"
OWNER_PIN == "0000"

\* The pins a client may send.
Pins == {"0000", "1234"}

\* The Authorization header of a request: none, or a scheme followed by a
\* token.  A token is a value uuidv4 returned (to a login, or as the id of
\* an item) or 0, the empty string.
NoHeader == [scheme |-> "", token |-> 0]
Headers ==
    {NoHeader}
    \cup [scheme : {"Bearer"}, token : {0, 1} \cup activeTokens]
    \cup [scheme : {"Basic"}, token : activeTokens]

\* The ids a request may name: an id no item carries, and the ids of the
\* items.
ApiIds == {0} \cup Ids(DB.items)

\* (variant: any Bearer header is let through)
RequireAuthAnyBearer(h, tokens) == h.scheme = "Bearer"

\* requireAuth: token = h.startsWith("Bearer ") ? h.slice(7) : null;
\* next() unless !token || !activeTokens.has(token)
RequireAuth(h, tokens) == h.scheme = "Bearer" /\ h.token # 0 /\ h.token \in tokens

\* res.status(status).json(...) by a handler that returns without calling
\* enqueueWrite.
Answer(route, status) ==
    /\ last' = [route |-> route, status |-> status, items |-> <<>>]
    /\ UNCHANGED <<storeVars, activeTokens, load, srv, p5, page>>

\* The handler went on to await enqueueWrite; its response is sent when the
\* promise settles (reqs[r].resp).
Awaiting(route) ==
    /\ last' = [route |-> route, status |-> 0, items |-> <<>>]
    /\ UNCHANGED <<activeTokens, load, srv, p5, page>>

\* app.post("/api/login")
Login(pin) ==
    /\ phase = "serving"
    /\ IF pin = OWNER_PIN
       THEN /\ Cardinality(activeTokens) < MaxTokens
            /\ activeTokens' = activeTokens \cup {nextId}
            /\ nextId' = nextId + 1
            /\ last' = [route |-> "login", status |-> 200, items |-> <<>>]
            /\ UNCHANGED <<DB, writing, queue, acts, files, reqs, applied, phase, loaded,
                           load, srv, p5, page>>
       ELSE Answer("login", 401)

\* ------------------------------------------------------------------ part_006: validation
\* Strings as the bodies carry them: sequences of characters.
Bodies ==
    {[title |-> <<" ", "a">>, url |-> <<"u", " ">>, status |-> "live"],
     [title |-> <<" ">>,      url |-> <<"u", " ">>, status |-> "live"],
     [title |-> <<" ", "a">>, url |-> <<" ", " ">>, status |-> "live"]}

RECURSIVE TrimStart(_)
TrimStart(s) == IF s # <<>> /\ Head(s) = " " THEN TrimStart(Tail(s)) ELSE s

RECURSIVE TrimEnd(_)
TrimEnd(s) == IF s # <<>> /\ s[Len(s)] = " " THEN TrimEnd(SubSeq(s, 1, Len(s) - 1)) ELSE s

\* (variant: the string is taken as it is)
TrimNone(s) == s

\* String.prototype.trim
Trim(s) == TrimEnd(TrimStart(s))

\* The string made of the characters of s.
RECURSIVE Text(_)
Text(s) == IF s = <<>> THEN "" ELSE s[1] \o Text(Tail(s))

\* body.f, or undefined: the empty string stands for String(undefined || "").
Field(body, f) == IF f \in DOMAIN body THEN body[f] ELSE <<>>

\* s.split(","): the pieces of s between its commas.
RECURSIVE SplitComma(_, _)
SplitComma(s, piece) ==
    IF s = <<>> THEN <<piece>>
    ELSE IF Head(s) = "," THEN <<piece>> \o SplitComma(Tail(s), <<>>)
    ELSE SplitComma(Tail(s), Append(piece, Head(s)))

\* .map(s => s.trim()).filter(Boolean) on the strings of a list.
RECURSIVE TrimAll(_)
TrimAll(l) ==
    IF l = <<>> THEN <<>>
    ELSE (IF Trim(Head(l)) = <<>> THEN <<>> ELSE <<Text(Trim(Head(l)))>>) \o TrimAll(Tail(l))

\* categories and tags: an array is mapped and filtered, anything else is
\* turned into a string and split at its commas.  A body carries an array as
\* [arr |-> ...] and a string as [str |-> ...].
CoerceList(body, f) ==
    IF f \notin DOMAIN body THEN <<>>
    ELSE IF "arr" \in DOMAIN body[f] THEN TrimAll(body[f].arr)
    ELSE TrimAll(SplitComma(body[f].str, <<>>))

\* (variant: the status of the body is kept whatever it is)
CoerceItemPayloadStatusAsSent(body) ==
    LET title == Text(Trim(Field(body, "title")))
        url   == Text(Trim(Field(body, "url")))
    IN  [err     |-> IF title = "" \/ url = "" THEN 400 ELSE 0,
         payload |-> [title      |-> title,
                      url        |-> url,
                      icon       |-> Text(Trim(Field(body, "icon"))),
                      desc       |-> Text(Trim(Field(body, "desc"))),
                      categories |-> CoerceList(body, "categories"),
                      tags       |-> CoerceList(body, "tags"),
                      featured   |-> "featured" \in DOMAIN body /\ body.featured,
                      status     |-> IF "status" \in DOMAIN body THEN body.status
                                     ELSE "live"]]

\* coerceItemPayload(body): the eight fields of the item, and 400 in err
\* when it throws (title or url empty after trim), 0 otherwise.
CoerceItemPayload(body) ==
    LET title == Text(Trim(Field(body, "title")))
        url   == Text(Trim(Field(body, "url")))
    IN  [err     |-> IF title = "" \/ url = "" THEN 400 ELSE 0,
         payload |-> [title      |-> title,
                      url        |-> url,
                      icon       |-> Text(Trim(Field(body, "icon"))),
                      desc       |-> Text(Trim(Field(body, "desc"))),
                      categories |-> CoerceList(body, "categories"),
                      tags       |-> CoerceList(body, "tags"),
                      featured   |-> "featured" \in DOMAIN body /\ body.featured,
                      status     |-> IF "status" \in DOMAIN body /\ body.status = "hidden"
                                     THEN "hidden" ELSE "live"]]

\* app.post("/api/gpts/create", requireAuth, ...)
ApiCreate(h, body) ==
    /\ phase = "serving"
    /\ IF ~RequireAuth(h, activeTokens) THEN Answer("create", 401)
       ELSE IF CoerceItemPayload(body).err # 0 THEN Answer("create", 400)
       ELSE /\ Len(reqs) < MaxApiReqs
            /\ Create(CoerceItemPayload(body).payload)
            /\ Awaiting("create")

\* app.put("/api/gpts/update/:id", requireAuth, ...)
ApiUpdate(h, id, body) ==
    /\ phase = "serving"
    /\ IF ~RequireAuth(h, activeTokens) THEN Answer("update", 401)
       ELSE IF CoerceItemPayload(body).err # 0 THEN Answer("update", 400)
       ELSE /\ Len(reqs) < MaxApiReqs
            /\ Update(id, CoerceItemPayload(body).payload)
            /\ Awaiting("update")

\* app.delete("/api/gpts/delete/:id", requireAuth, ...)
ApiDelete(h, id) ==
    /\ phase = "serving"
    /\ IF ~RequireAuth(h, activeTokens) THEN Answer("delete", 401)
       ELSE /\ Len(reqs) < MaxApiReqs
            /\ Delete(id)
            /\ Awaiting("delete")

\* app.put("/api/settings", requireAuth, ...)
ApiSettings(h, body) ==
    /\ phase = "serving"
    /\ IF ~RequireAuth(h, activeTokens) THEN Answer("settings", 401)
       ELSE IF Text(Trim(body.title)) = "" THEN Answer("settings", 400)
       ELSE /\ Len(reqs) < MaxApiReqs
            /\ Settings(Text(Trim(body.title)))
            /\ Awaiting("settings")

\* ------------------------------------------------------------------ server.js: sessions, admin routes
MaxHours == 1

\* const ADMIN_PIN = (process.env.ADMIN_PIN || '4545').trim()
ADMIN_PIN == "4545"

SrvPins == {"4545", "0000"}

\* expires: Date.now() + 3600_000
SessionTTL == 3600000

\* The clock moves in steps of an hour.
ClockStep == SessionTTL

\* The token a request shows: bearer || cookieTok (0 when it has neither).
SrvCreds ==
    [bearer : 0..MaxTokens, cookie : {0}] \cup [bearer : {0}, cookie : 1..MaxTokens]
Presented(c) == IF c.bearer # 0 THEN c.bearer ELSE c.cookie

\* (variant: a session never expires)
VerifyTokenValueNoExpiry(sessions, token, now) ==
    [user |-> \E s \in sessions : s.token = token, sessions |-> sessions]

\* verifyTokenValue(token): the user when the session exists and has not
\* expired; an expired session is deleted.
VerifyTokenValue(sessions, token, now) ==
    LET mine == {s \in sessions : s.token = token /\ token # 0}
    IN  IF \E s \in mine : s.expires > now
        THEN [user |-> TRUE, sessions |-> sessions]
        ELSE [user |-> FALSE, sessions |-> sessions \ mine]

\* Date.now() moved on.
SrvTick ==
    /\ srv.pc = "listening"
    /\ srv.now < MaxHours * SessionTTL
    /\ srv' = [srv EXCEPT !.now = @ + ClockStep]
    /\ UNCHANGED <<storeVars, activeTokens, last, load, p5, page>>

\* POST /api/login: checkPin, createToken.
SrvLogin(pin) ==
    /\ srv.pc = "listening"
    /\ IF pin = ADMIN_PIN
       THEN /\ srv.nextToken <= MaxTokens
            /\ srv' = [srv EXCEPT
                          !.sessions = @ \cup {[token |-> srv.nextToken,
                                                expires |-> srv.now + SessionTTL]},
                          !.nextToken = @ + 1,
                          !.last = [route |-> "login", status |-> 200, items |-> <<>>]]
       ELSE srv' = [srv EXCEPT
                       !.last = [route |-> "login", status |-> 401, items |-> <<>>]]
    /\ UNCHANGED <<storeVars, activeTokens, last, load, p5, page>>

\* readJSON(DB_PATH, fallback) in a handler, the file being readable or not.
SrvDb == IF JSONparse(srv.db).ok THEN JSONparse(srv.db).val ELSE DefaultDB

\* What an admin route does to the Document it read, and the status it
\* sends when writeJSON succeeds: create (body.id = uuidv4(), the id being
\* op.id; db.items.unshift(body), 201), update ({...db.items[idx], ...body},
\* 200, or 404), delete (filter, 204, or 404).  The body is the parsed
\* request body as it came.
SrvAdminOp(op, db) ==
    CASE op.kind = "create" ->
           [db |-> [db EXCEPT !.items = <<Spread(op.payload, [id |-> op.id])>> \o @],
            status |-> 201]
      [] op.kind = "update" ->
           LET i == FindIndex(db.items, op.id)
           IN  IF i = 0 THEN [db |-> db, status |-> 404]
               ELSE [db |-> [db EXCEPT !.items[i] = Spread(@, op.payload)],
                     status |-> 200]
      [] op.kind = "delete" ->
           IF FindIndex(db.items, op.id) = 0 THEN [db |-> db, status |-> 404]
           ELSE [db |-> [db EXCEPT !.items = FilterOut(@, op.id)], status |-> 204]

\* The admin requests a client may send.
SrvOps ==
    {[kind |-> "create", id |-> 0, payload |-> PayloadA]}
    \cup [kind : {"update"}, id : {0} \cup Ids(SrvDb.items), payload : {PayloadB}]
    \cup [kind : {"delete"}, id : {0} \cup Ids(SrvDb.items), payload : {PayloadA}]

\* The admin auth gate and the route behind it; ok is whether the files
\* could be written.
SrvAdmin(c, op, ok) ==
    /\ srv.pc = "listening"
    /\ LET v   == VerifyTokenValue(srv.sessions, Presented(c), srv.now)
           out == SrvAdminOp(IF op.kind = "create" THEN [op EXCEPT !.id = srv.nextId]
                             ELSE op, SrvDb)
       IN  IF ~v.user
           THEN srv' = [srv EXCEPT
                           !.sessions = v.sessions,
                           !.last = [route |-> op.kind, status |-> 401, items |-> <<>>]]
           ELSE IF out.status = 404
           THEN srv' = [srv EXCEPT
                           !.db = IF JSONparse(srv.db).ok THEN @ ELSE JSONstringify(SrvDb),
                           !.last = [route |-> op.kind, status |-> 404, items |-> <<>>]]
           ELSE IF ~ok
           THEN srv' = [srv EXCEPT
                           !.last = [route |-> op.kind, status |-> 500, items |-> <<>>]]
           ELSE /\ op.kind = "create" => srv.nextId <= MaxApiReqs + 1
                /\ srv' = [srv EXCEPT
                              !.db = JSONstringify(out.db),
                              !.nextId = IF op.kind = "create" THEN @ + 1 ELSE @,
                              !.last = [route |-> op.kind, status |-> out.status,
                                        items |-> <<>>]]
    /\ UNCHANGED <<storeVars, activeTokens, last, load, p5, page>>

\* ------------------------------------------------------------------ the HTTP interfaces
\* One of the two servers is started (both listen on PORT, 3000 by default).
ApiInit ==
    /\ DB = DefaultDB
    /\ writing = FALSE
    /\ queue = <<>>
    /\ acts = <<>>
    /\ reqs = <<>>
    /\ applied = <<>>
    /\ nextId = 2
    /\ loaded = NoDoc
    /\ activeTokens = {}
    /\ last = NoResponse
    /\ load = LoadIdle
    /\ p5 = P5Idle
    /\ page = PageIdle
    /\ \/ /\ phase = "boot"
          /\ files = [p \in Paths |-> IF p = DB_PATH THEN JSONstringify(SeedDB) ELSE Absent]
          /\ srv = SrvIdle
       \/ /\ phase = "off"
          /\ files = [p \in Paths |-> Absent]
          /\ srv = SrvBoot(JSONstringify(SeedDB), JSONstringify(LeadsEmpty))

ApiNext ==
    \/ LoadDB /\ UNCHANGED ext
    \/ \E pin \in Pins : Login(pin)
    \/ \E h \in Headers, b \in Bodies : ApiCreate(h, b)
    \/ \E h \in Headers, id \in ApiIds, b \in Bodies : ApiUpdate(h, id, b)
    \/ \E h \in Headers, id \in ApiIds : ApiDelete(h, id)
    \/ \E h \in Headers, b \in Bodies : ApiSettings(h, b)
    \/ \E i \in 1..Len(acts) : FsWriteDone(i) /\ UNCHANGED ext
    \/ \E i \in 1..Len(acts) : FsRenameDone(i) /\ UNCHANGED ext
    \/ SrvReadJSON
    \/ SrvTick
    \/ \E pin \in SrvPins : SrvLogin(pin)
    \/ \E c \in SrvCreds, op \in SrvOps, ok \in BOOLEAN : SrvAdmin(c, op, ok)

ApiSpec == ApiInit /\ [][ApiNext]_vars

\* ------------------------------------------------------------------ C17, C18
\* The header carries a token that a successful login returned.
Issued(h) == h.scheme = "Bearer" /\ h.token \in activeTokens

\* The string is empty after trimming: it holds nothing but spaces.
BlankOnly(s) == \A i \in 1..Len(s) : s[i] = " "

\* The request is answered by status and the store is as it was: queue,
\* Document, files, promises.
AnsweredUntouched(status) ==
    /\ last'.status = status
    /\ UNCHANGED <<storeVars, activeTokens>>

\* C17: a create or update request (of an authorized client) whose title
\* or url is empty after trimming, and a settings request whose title is,
\* is answered 400 and enqueueWrite is not called: the queue, the Document
\* and db.json are as before; an entry is queued only by a request that is
\* not answered at once.
C17_Step ==
    /\ \A h \in Headers, b \in Bodies :
          Issued(h) =>
              /\ (BlankOnly(b.title) \/ BlankOnly(b.url)) =>
                    /\ ApiCreate(h, b) => AnsweredUntouched(400)
                    /\ \A id \in ApiIds : ApiUpdate(h, id, b) => AnsweredUntouched(400)
              /\ BlankOnly(b.title) =>
                    (ApiSettings(h, b) => AnsweredUntouched(400))
    /\ Len(reqs') > Len(reqs) => (last'.status = 0 /\ last'.route = reqs'[Len(reqs')].kind)
    /\ (last' # last /\ last'.status = 400) => UNCHANGED storeVars

C17_InvalidBodyIs400 == [][C17_Step]_vars

\* An update with a blank title was answered 400 while the entry of an
\* earlier request was being persisted.
C17_Witness ==
    /\ last = [route |-> "update", status |-> 400, items |-> <<>>]
    /\ writing
    /\ LoopActs # {}
    /\ \E r \in DOMAIN reqs : reqs[r].st = "pending"

\* The session of token t is there and has not expired.
SrvValidIn(sv, t) == \E s \in sv.sessions : s.token = t /\ s.expires > sv.now

\* C18: part_006: a create, update, delete or settings request whose header
\* does not carry a token returned by a successful login is answered 401 and
\* leaves the store (queue, Document, files) and the tokens as they were; an
\* entry is queued only by a request carrying such a token; tokens come from
\* logins with the right PIN alone.  server.js: an admin request showing no
\* token of a session that has not expired is answered 401 and leaves
\* db.json, and which tokens are valid, as they were; db.json changes only
\* through a request showing a valid token; sessions come from logins with
\* the right PIN alone and last an hour.
C18_Step ==
    /\ \A h \in Headers :
          (phase = "serving" /\ srv' = srv /\ ~Issued(h)) =>
              /\ \A b \in Bodies :
                    /\ (last'.route = "create" /\ ApiCreate(h, b))
                           => AnsweredUntouched(401)
                    /\ (last'.route = "settings" /\ ApiSettings(h, b))
                           => AnsweredUntouched(401)
                    /\ \A id \in ApiIds :
                           (last'.route = "update" /\ ApiUpdate(h, id, b))
                               => AnsweredUntouched(401)
              /\ \A id \in ApiIds :
                     (last'.route = "delete" /\ ApiDelete(h, id))
                         => AnsweredUntouched(401)
    /\ Len(reqs') > Len(reqs) =>
          \E h \in Headers :
              /\ Issued(h)
              /\ \/ \E b \in Bodies : ApiCreate(h, b) \/ ApiSettings(h, b)
                 \/ \E id \in ApiIds, b \in Bodies : ApiUpdate(h, id, b)
                 \/ \E id \in ApiIds : ApiDelete(h, id)
    /\ activeTokens' # activeTokens =>
          /\ Login(OWNER_PIN)
          /\ activeTokens \subseteq activeTokens'
    /\ \A c \in SrvCreds :
          (srv.pc = "listening" /\ srv'.now = srv.now /\ last' = last
                                /\ ~SrvValidIn(srv, Presented(c))) =>
              \A op \in SrvOps, ok \in BOOLEAN :
                  (srv'.last.route = op.kind /\ SrvAdmin(c, op, ok)) =>
                      /\ srv'.last.status = 401
                      /\ srv'.db = srv.db
                      /\ srv'.nextId = srv.nextId
                      /\ \A t \in 0..MaxTokens : SrvValidIn(srv', t) <=> SrvValidIn(srv, t)
    /\ (srv.pc = "listening" /\ srv'.db # srv.db) =>
          \E c \in SrvCreds :
              /\ SrvValidIn(srv, Presented(c))
              /\ \E op \in SrvOps, ok \in BOOLEAN : SrvAdmin(c, op, ok)
    /\ ~(srv'.sessions \subseteq srv.sessions) =>
          /\ SrvLogin(ADMIN_PIN)
          /\ \A s \in srv'.sessions \ srv.sessions : s.expires = srv.now + SessionTTL

P5Default ==
    [settings |-> [title |-> "GPTMart"],
     items |-> <<Item(1, PayloadA), Item(2, PayloadA), Item(3, PayloadB)>>]

\* GET /api/gpts of part_005: readDB and the filter.  An unreadable db.json
\* is overwritten, in place, with the default data; when that write fails
\* the handler throws and nothing is answered.
P5GetPublic ==
    /\ p5.pc = "listening"
    /\ LET p == JSONparse(p5.db)
       IN  \/ /\ p.ok
              /\ p5' = [p5 EXCEPT !.last =
                           [route |-> "public", status |-> 200,
                            items |-> PublicItems(p.val.items)]]
           \/ /\ ~p.ok
              /\ p5' = [p5 EXCEPT !.db = JSONstringify(P5Default),
                                  !.last = [route |-> "public", status |-> 200,
                                            items |-> PublicItems(P5Default.items)]]
           \/ /\ ~p.ok
              /\ p5' = [p5 EXCEPT !.db = Corrupt, !.last = NoResponse]
    /\ UNCHANGED <<storeVars, activeTokens, last, load, srv, page>>

\* ------------------------------------------------------------------ the public listings
\* A Document with a live, a hidden and a pending item and one without
\* status.
ListDB ==
    [settings |-> [title |-> "GPTMart"],
     items |-> <<Item(1, PayloadA), Item(2, PayloadB),
                 [id |-> 3, title |-> "c", status |-> "pending"],
                 [id |-> 4, title |-> "d"]>>]

ListFiles == {Absent, Corrupt, JSONstringify(SeedDB), JSONstringify(ListDB)}

\* One of the three servers is started on a db.json of ListFiles; ids up
\* to 4 are taken.
ListInit ==
    /\ DB = DefaultDB
    /\ writing = FALSE
    /\ queue = <<>>
    /\ acts = <<>>
    /\ reqs = <<>>
    /\ applied = <<>>
    /\ nextId = Len(ListDB.items) + 1
    /\ loaded = NoDoc
    /\ activeTokens = {}
    /\ last = NoResponse
    /\ load = LoadIdle
    /\ \E c \in ListFiles :
          \/ /\ phase = "boot"
             /\ files = [p \in Paths |-> IF p = DB_PATH THEN c ELSE Absent]
             /\ srv = SrvIdle
             /\ p5 = P5Idle
             /\ page = PageIdle
          \/ /\ phase = "off"
             /\ files = [p \in Paths |-> Absent]
             /\ srv = SrvBoot(c, JSONstringify(LeadsEmpty))
             /\ p5 = P5Idle
             /\ page = PageIdle
          \/ /\ phase = "off"
             /\ files = [p \in Paths |-> Absent]
             /\ srv = SrvIdle
             /\ p5 = [P5Idle EXCEPT !.pc = "listening", !.db = c]
             /\ page = PageIdle

ListNext ==
    \/ LoadDB /\ UNCHANGED ext
    \/ \E p \in CreatePayloads : Create(p) /\ UNCHANGED ext
    \/ \E id \in ApiIds, p \in UpdatePayloads : Update(id, p) /\ UNCHANGED ext
    \/ \E i \in 1..Len(acts) : FsWriteDone(i) /\ UNCHANGED ext
    \/ \E i \in 1..Len(acts) : FsRenameDone(i) /\ UNCHANGED ext
    \/ GetPublic
    \/ SrvReadJSON
    \/ SrvWriteDone
    \/ SrvGetPublic
    \/ P5GetPublic

ListSpec == ListInit /\ [][ListNext]_vars

\* ------------------------------------------------------------------ C19
\* The responses of the public listing endpoints sent last.
PublicResponses == {r \in {last, srv.last, p5.last} : r.route = "public"}

\* C19: in each of the three backends the response of the public listing
\* endpoint holds only items whose status is "live": no item that is
\* hidden, pending or without status is in it.
C19_PublicListsOnlyLive ==
    \A r \in PublicResponses :
        \A i \in 1..Len(r.items) :
            /\ "status" \in DOMAIN r.items[i]
            /\ r.items[i].status = "live"

\* part_006 listed the one live item of a store that also holds a hidden
\* item, a pending item and an item without status.
C19_Witness ==
    /\ last.route = "public"
    /\ last.items = <<Item(1, PayloadA)>>
    /\ \E i \in 1..Len(DB.items) : DB.items[i].id = 2 /\ DB.items[i].status = "hidden"
    /\ \E i \in 1..Len(DB.items) : DB.items[i].id = 3 /\ DB.items[i].status = "pending"
    /\ \E i \in 1..Len(DB.items) : "status" \notin DOMAIN DB.items[i]

\* ------------------------------------------------------------------ C20
\* The requests of the four handlers (authorized, with valid bodies).
HandlerKinds == {"create", "update", "delete", "settings"}

C21_DeleteRemovesOne ==
    \A r \in Range(applied) :
        (reqs[r].kind = "delete" /\ reqs[r].id \in Ids(reqs[r].before.items)) =>
            LET old == reqs[r].before.items
                new == reqs[r].after.items
                p   == Pos(old, reqs[r].id)
            IN  /\ ~Thrown(r)
                /\ reqs[r].writes = 1
                /\ reqs[r].after.settings = reqs[r].before.settings
                /\ Len(new) = Len(old) - 1
                /\ \A i \in 1..Len(new) : new[i] = IF i < p THEN old[i] ELSE old[i + 1]
                /\ reqs[r].id \notin Ids(new)
                /\ Len(old) = 1 => new = <<>>
                /\ Settled(r) => (reqs[r].st = "resolved" \/ PersistFailed(r))
                /\ reqs[r].st = "resolved" => reqs[r].resp = 204
                /\ applied[Len(applied)] = r => DB = reqs[r].after
                /\ r \in LastResolved =>
                      /\ files[DB_PATH] = JSONstringify(reqs[r].after)
                      /\ JSONparse(files[DB_PATH]).ok
                      /\ FillDefaults(JSONparse(files[DB_PATH]).val).items = new

\* The first of two items was deleted, then the one that was left: both
\* deletes resolved, and memory and db.json hold no item.
C21_Witness ==
    /\ DB.items = <<>>
    /\ files[DB_PATH] = JSONstringify(DB)
    /\ \E r, k \in DOMAIN reqs :
          /\ r < k
          /\ reqs[r].kind = "delete" /\ reqs[r].st = "resolved"
          /\ Len(reqs[r].before.items) = 2
          /\ reqs[r].id = reqs[r].before.items[1].id
          /\ reqs[k].kind = "delete" /\ reqs[k].st = "resolved"
          /\ Len(reqs[k].before.items) = 1

\* C22: the create mutator puts the new item in front of the items it
\* finds, so that of the items two creates made the later one comes first.
C22_CreateInsertsAtFront ==
    /\ \A r \in Range(applied) :
          reqs[r].kind = "create" =>
              reqs[r].after.items = <<Item(reqs[r].id, reqs[r].payload)>> \o reqs[r].before.items
    /\ \A a, b \in Range(applied) :
          ( /\ reqs[a].kind = "create" /\ reqs[b].kind = "create" /\ a < b
            /\ {reqs[a].id, reqs[b].id} \subseteq Ids(DB.items) )
              => Pos(DB.items, reqs[b].id) < Pos(DB.items, reqs[a].id)

\* ------------------------------------------------------------------ loadDB run again
\* The process is started on any content of db.json (and a temp file that
\* an earlier run may have left) and is killed and started again, any number of times, while no request is made; load.again
\* tells that a restart came after a loadDB that had completed.
ReloadInit ==
    /\ DB = DefaultDB
    /\ writing = FALSE
    /\ queue = <<>>
    /\ acts = <<>>
    /\ \E c \in AnyFiles, t \in {Absent, Corrupt, JSONstringify(SeedDB)} :
          files = [p \in Paths |-> IF p = DB_PATH THEN c ELSE t]
    /\ reqs = <<>>
    /\ applied = <<>>
    /\ nextId = 2
    /\ phase = "boot"
    /\ loaded = NoDoc
    /\ activeTokens = {}
    /\ last = NoResponse
    /\ load = [file |-> files[DB_PATH], again |-> FALSE]
    /\ srv = SrvIdle
    /\ p5 = P5Idle
    /\ page = PageIdle

Restart ==
    /\ Crash
    /\ load' = [file |-> load.file, again |-> load.again \/ phase = "serving"]
    /\ UNCHANGED <<activeTokens, last, srv, p5, page>>

ReloadNext ==
    \/ LoadDB /\ UNCHANGED ext
    \/ \E i \in 1..Len(acts) : FsWriteUnderWay(i) /\ UNCHANGED ext
    \/ \E i \in 1..Len(acts) : FsWriteDone(i) /\ UNCHANGED ext
    \/ \E i \in 1..Len(acts) : FsWriteFail(i) /\ UNCHANGED ext
    \/ \E i \in 1..Len(acts) : FsRenameDone(i) /\ UNCHANGED ext
    \/ \E i \in 1..Len(acts) : FsRenameFail(i) /\ UNCHANGED ext
    \/ Restart

ReloadSpec == ReloadInit /\ [][ReloadNext]_vars

\* C23: with no request made in between, a loadDB that completes after an
\* earlier loadDB completed leaves the in-memory Document the earlier one
\* left, whatever db.json held at first; and when db.json was absent, did
\* not parse or held a Document, the later loadDB finds in db.json the
\* serialization of the Document the earlier one produced.
C23_Step ==
    /\ (phase # "serving" /\ phase' = "serving" /\ loaded # NoDoc)
          => (DB' = loaded /\ loaded' = loaded)
    /\ (phase = "boot" /\ loaded # NoDoc /\ load.file \in InitialFiles)
          => /\ files[DB_PATH] = JSONstringify(loaded)
             /\ (LoadDB => (phase' = "serving" /\ files' = files))

C23_LoadTwiceSame == [][C23_Step]_vars

\* db.json did not parse at first; loadDB wrote the default Document, the
\* process was started again and loadDB has read that Document back.
C23_Witness ==
    /\ load.file = Corrupt
    /\ load.again
    /\ phase = "serving"
    /\ DB = DefaultDB
    /\ loaded = DefaultDB
    /\ files[DB_PATH] = JSONstringify(DefaultDB)

\* ------------------------------------------------------------------ server.js: handlers at their awaits
\* Requests admitted to the read-modify-write routes in one behaviour.
MaxSrvReqs == 2

\* The file a route reads and writes, and writeJSON's `file + '.tmp'`.
FileOf(kind) == IF kind = "lead" THEN "leads" ELSE "db"
TmpOf(f) == IF f = "db" THEN "dbtmp" ELSE "leadstmp"

\* The bodies sent to POST /api/gpts/submit (strings as they are after
\* trim; the url as its beginning and its rest).
SubmitBodies ==
    {[title |-> "s", url |-> <<"https://chatgpt.com/g/", "x">>, status |-> "live",
      featured |-> TRUE],
     [title |-> "s", url |-> <<"http://", "x">>, status |-> "live", featured |-> TRUE]}

\* if (!title) 400; if (!/^https:\/\/chatgpt\.com\/g\//i.test(urlStr)) 400
SubmitOk(body) == body.title # "" /\ Head(body.url) = "https://chatgpt.com/g/"

\* if (!email || !message) 400
LeadOk(body) == body.email # "" /\ body.message # ""

\* (variant: status and featured are taken from the body)
SubmitItemAsSent(id, body) ==
    [id |-> id, title |-> body.title, featured |-> body.featured, status |-> body.status]

\* const item = { id: uuidv4(), title, ..., featured:false, status:'pending', ... }
SubmitItem(id, body) ==
    [id |-> id, title |-> body.title, featured |-> FALSE, status |-> "pending"]

\* What a route does to the parsed copy it read, and the status it sends
\* when writeJSON succeeds.
SrvApply(op, doc) ==
    CASE op.kind = "submit" ->
           [db |-> [doc EXCEPT !.items = Append(@, SubmitItem(op.id, op.payload))],
            status |-> 201]
      [] op.kind = "lead" ->
           [db |-> [doc EXCEPT !.leads = Append(@, [id |-> op.id, email |-> op.payload.email])],
            status |-> 201]
      [] OTHER -> SrvAdminOp(op, doc)

\* The requests a client may send to these routes.
SrvRequests ==
    [kind : {"submit"}, id : {0}, payload : SubmitBodies]
    \cup [kind : {"lead"}, id : {0},
          payload : {[email |-> "e", message |-> "m"], [email |-> "e", message |-> ""]}]
    \cup {[kind |-> "create", id |-> 0, payload |-> PayloadA]}
    \cup [kind : {"update"}, id : {0} \cup Ids(SrvDb.items),
          payload : {[status |-> "live"], [id |-> 1]}]
    \cup [kind : {"delete"}, id : {0} \cup Ids(SrvDb.items), payload : {PayloadA}]

\* A request reaches its route: the public routes validate the body, the
\* admin routes lie behind the auth gate; the handler then awaits readJSON
\* (fewer submissions are made than allowSubmit lets through in a window).
SrvRequest(c, op) ==
    /\ srv.pc = "listening"
    /\ LET v == VerifyTokenValue(srv.sessions, Presented(c), srv.now)
       IN  IF op.kind \in {"create", "update", "delete"} /\ ~v.user
           THEN srv' = [srv EXCEPT
                           !.sessions = v.sessions,
                           !.last = [route |-> op.kind, status |-> 401, items |-> <<>>]]
           ELSE IF \/ op.kind = "submit" /\ ~SubmitOk(op.payload)
                   \/ op.kind = "lead" /\ ~LeadOk(op.payload)
           THEN srv' = [srv EXCEPT
                           !.last = [route |-> op.kind, status |-> 400, items |-> <<>>]]
           ELSE /\ Cardinality(srv.hs) + Cardinality(srv.log) < MaxSrvReqs
                /\ srv' = [srv EXCEPT !.hs = @ \cup
                              {[n |-> Cardinality(srv.hs) + Cardinality(srv.log) + 1,
                                op |-> op, pc |-> "read", data |-> Absent, status |-> 0]}]
    /\ UNCHANGED <<storeVars, activeTokens, last, load, p5, page>>

\* await readJSON(...) returns in handler h: the parsed copy (the fallback,
\* written to the file, when the file does not parse) is modified, with a
\* new uuid where the route makes one; a 404 is answered at once, otherwise
\* writeJSON is called: JSON.stringify(data) and fs.writeFile(tmp, ...).
SrvHandlerRead(h) ==
    /\ h \in srv.hs
    /\ h.pc = "read"
    /\ LET f   == FileOf(h.op.kind)
           p   == JSONparse(srv[f])
           new == h.op.kind \in {"submit", "lead", "create"}
           op  == IF new THEN [h.op EXCEPT !.id = srv.nextId] ELSE h.op
           out == SrvApply(op, IF p.ok THEN p.val ELSE SrvFallback(f))
       IN  srv' = [srv EXCEPT
                      ![f] = IF p.ok THEN @ ELSE JSONstringify(SrvFallback(f)),
                      !.nextId = IF new THEN @ + 1 ELSE @,
                      !.hs = (@ \ {h}) \cup
                             (IF out.status = 404 THEN {}
                              ELSE {[h EXCEPT !.op = op, !.pc = "write",
                                              !.data = JSONstringify(out.db),
                                              !.status = out.status]}),
                      !.log = @ \cup
                              (IF out.status = 404
                               THEN {[n |-> h.n, op |-> op, status |-> 404]}
                               ELSE {})]
    /\ UNCHANGED <<storeVars, activeTokens, last, load, p5, page>>

\* await fs.writeFile(tmp, ...) completes in handler h; fs.rename is called.
SrvHandlerWritten(h) ==
    /\ h \in srv.hs
    /\ h.pc = "write"
    /\ srv' = [srv EXCEPT ![TmpOf(FileOf(h.op.kind))] = h.data,
                          !.hs = (@ \ {h}) \cup {[h EXCEPT !.pc = "rename"]}]
    /\ UNCHANGED <<storeVars, activeTokens, last, load, p5, page>>

\* await fs.rename(tmp, file) settles in handler h: the file becomes what the
\* temp file holds and the route's status is sent; with no temp file there,
\* rename throws and the catch answers 500.
SrvHandlerRenamed(h) ==
    /\ h \in srv.hs
    /\ h.pc = "rename"
    /\ LET f == FileOf(h.op.kind)
           t == TmpOf(f)
       IN  IF srv[t] = Absent
           THEN srv' = [srv EXCEPT !.hs = @ \ {h},
                                   !.log = @ \cup {[n |-> h.n, op |-> h.op, status |-> 500]}]
           ELSE srv' = [srv EXCEPT ![f] = srv[t],
                                   ![t] = Absent,
                                   !.hs = @ \ {h},
                                   !.log = @ \cup {[n |-> h.n, op |-> h.op, status |-> h.status]}]
    /\ UNCHANGED <<storeVars, activeTokens, last, load, p5, page>>

\* server.js is started on a db.json holding a Document and an empty
\* leads.json.
SrvInit ==
    /\ DB = DefaultDB
    /\ writing = FALSE
    /\ queue = <<>>
    /\ acts = <<>>
    /\ files = [p \in Paths |-> Absent]
    /\ reqs = <<>>
    /\ applied = <<>>
    /\ nextId = 2
    /\ phase = "off"
    /\ loaded = NoDoc
    /\ activeTokens = {}
    /\ last = NoResponse
    /\ load = LoadIdle
    /\ srv = SrvBoot(JSONstringify(SeedDB), JSONstringify(LeadsEmpty))
    /\ p5 = P5Idle
    /\ page = PageIdle

SrvNext ==
    \/ SrvReadJSON
    \/ SrvLogin(ADMIN_PIN)
    \/ \E c \in SrvCreds, op \in SrvRequests : SrvRequest(c, op)
    \/ \E h \in srv.hs : SrvHandlerRead(h)
    \/ \E h \in srv.hs : SrvHandlerWritten(h)
    \/ \E h \in srv.hs : SrvHandlerRenamed(h)
    \/ SrvGetPublic

SrvSpec == SrvInit /\ [][SrvNext]_vars

\* ------------------------------------------------------------------ C24, C26, C27, C29
\* C24: leads.json only grows at its end: each content it takes extends the
\* one before by appended entries, and every lead whose request was answered
\* 201 is in the file from then on.
C24_Step ==
    /\ srv.pc = "listening" =>
          LET old == JSONparse(srv.leads).val.leads
              new == JSONparse(srv'.leads).val.leads
          IN  /\ JSONparse(srv'.leads).ok
              /\ Len(old) <= Len(new)
              /\ SubSeq(new, 1, Len(old)) = old
    /\ \A e \in srv'.log :
          (e.op.kind = "lead" /\ e.status = 201)
              => e.op.id \in Ids(JSONparse(srv'.leads).val.leads)

C24_LeadsAppendOnly == [][C24_Step]_vars

\* The Document obtained from db by applying, in the order of admission, the
\* requests from number n on that were answered with success.
RECURSIVE SrvReplay(_, _)
SrvReplay(n, db) ==
    IF n > Cardinality(srv.log) THEN db
    ELSE LET e == CHOOSE x \in srv.log : x.n = n
         IN  SrvReplay(n + 1,
                       IF e.status \in {200, 201, 204} /\ FileOf(e.op.kind) = "db"
                       THEN SrvApply(e.op, db).db ELSE db)

\* C26: once the admitted requests have been answered, each of them with
\* 201, 200 or 204, db.json holds the Document the server started with,
\* with the effects of all of them applied in the order of their admission.
C26_BothEffectsInOrder ==
    (srv.pc = "listening" /\ srv.hs = {} /\ \A e \in srv.log : e.status \in {200, 201, 204})
        => JSONparse(srv.db) = [ok |-> TRUE, val |-> SrvReplay(1, SeedDB)]

\* C27: the rename of a writeJSON call finds the temp file and installs the
\* text that call serialized, and no handler is answered 500.
C27_Step ==
    \A h \in srv.hs :
        SrvHandlerRenamed(h) =>
            /\ srv'[FileOf(h.op.kind)] = h.data
            /\ \A e \in srv'.log : e.status # 500

C27_RenameInstallsOwn == [][C27_Step]_vars

\* C29: the item an update has modified still carries the id the request
\* named, whatever the body holds, and the ids of the items of db.json are
\* pairwise distinct.
C29_UpdateKeepsId ==
    /\ \A h \in srv.hs :
          (h.op.kind = "update" /\ h.pc \in {"write", "rename"})
              => h.op.id \in Ids(h.data.val.items)
    /\ JSONparse(srv.db).ok => DistinctIds(JSONparse(srv.db).val.items)

\* ------------------------------------------------------------------ server.js: submit, approve, list
\* Public submissions, admin updates that set an item live, and the public
\* listing; one admin logs in.
PublishRequests ==
    [kind : {"submit"}, id : {0}, payload : SubmitBodies]
    \cup [kind : {"update"}, id : {0} \cup Ids(SrvDb.items), payload : {[status |-> "live"]}]

PublishNext ==
    \/ SrvReadJSON
    \/ srv.sessions = {} /\ SrvLogin(ADMIN_PIN)
    \/ \E c \in SrvCreds, op \in PublishRequests : SrvRequest(c, op)
    \/ \E h \in srv.hs : SrvHandlerRead(h)
    \/ \E h \in srv.hs : SrvHandlerWritten(h)
    \/ \E h \in srv.hs : SrvHandlerRenamed(h)
    \/ SrvGetPublic

PublishSpec == SrvInit /\ [][PublishNext]_vars

\* The ids of the items made by POST /api/gpts/submit.
Submitted ==
    {h.op.id : h \in {x \in srv.hs : x.op.kind = "submit" /\ x.pc # "read"}}
    \cup {e.op.id : e \in {x \in srv.log : x.op.kind = "submit"}}

\* The ids whose item an update behind the auth gate has set live.
MadeLive ==
    {h.op.id : h \in {x \in srv.hs : x.op.kind = "update" /\ x.pc # "read"}}
    \cup {e.op.id : e \in {x \in srv.log : x.op.kind = "update" /\ x.status # 404}}

\* C30: in db.json and in its temp file, an item made by submit has status
\* "pending" and featured false, whatever the body held, unless an update
\* let through by the auth gate has set it live; no response of the public
\* listing holds a submitted item that no such update has set live; and an
\* update request showing no valid token starts no handler and leaves
\* db.json as it was.
C30_Step ==
    /\ \A f \in {srv'.db, srv'.dbtmp} :
          f.kind = "json" =>
              \A i \in 1..Len(f.val.items) :
                  (f.val.items[i].id \in Submitted' \ MadeLive')
                      => /\ f.val.items[i].status = "pending"
                         /\ f.val.items[i].featured = FALSE
    /\ srv'.last.route = "public" =>
          \A i \in 1..Len(srv'.last.items) :
              srv'.last.items[i].id \in Submitted' => srv'.last.items[i].id \in MadeLive'
    /\ \A c \in SrvCreds, op \in PublishRequests :
          (op.kind = "update" /\ ~SrvValidIn(srv, Presented(c)) /\ SrvRequest(c, op))
              => /\ srv'.last.status = 401
                 /\ srv'.hs = srv.hs
                 /\ srv'.db = srv.db

C30_SubmittedStaysPending == [][C30_Step]_vars

\* A submission whose body said live and featured was answered 201 and is
\* in db.json as pending; the public listing, asked since, returned the
\* live item of the store and not the submitted one.
C30_Witness ==
    /\ \E e \in srv.log :
          /\ e.op.kind = "submit" /\ e.status = 201
          /\ e.op.payload.status = "live" /\ e.op.payload.featured
          /\ \E i \in 1..Len(srv.db.val.items) :
                /\ srv.db.val.items[i].id = e.op.id
                /\ srv.db.val.items[i].status = "pending"
          /\ e.op.id \notin Ids(srv.last.items)
    /\ srv.last.route = "public"
    /\ Ids(srv.last.items) = {1}

\* ------------------------------------------------------------------ part_005: the admin routes
\* (server.js lines 271-420 has the same readDB, writeDB, sessions and
\* route bodies under other paths.)  p5.hs holds the activations of admitted
\* requests: at "read" awaiting readDB, at "open" about to call
\* fs.writeFile(DB_PATH), at "write" with db.json opened and truncated and
\* the text not written yet.

\* The Document a store in use holds: none of its items is a default one.
P5Stored ==
    [settings |-> [title |-> "GPTMart"],
     items |-> <<Item(4, PayloadA), Item(5, PayloadB)>>]

P5Init ==
    /\ DB = DefaultDB
    /\ writing = FALSE
    /\ queue = <<>>
    /\ acts = <<>>
    /\ reqs = <<>>
    /\ applied = <<>>
    /\ nextId = 2
    /\ loaded = NoDoc
    /\ phase = "off"
    /\ files = [p \in Paths |-> Absent]
    /\ activeTokens = {}
    /\ last = NoResponse
    /\ load = LoadIdle
    /\ srv = SrvIdle
    /\ p5 = [P5Idle EXCEPT !.pc = "listening", !.db = JSONstringify(P5Stored),
                           !.nextId = 6]
    /\ page = PageIdle

\* POST /api/login: createToken on the right pin.
P5Login(pin) ==
    /\ p5.pc = "listening"
    /\ IF pin = ADMIN_PIN
       THEN /\ p5.nextToken <= MaxTokens
            /\ p5' = [p5 EXCEPT
                         !.sessions = @ \cup {[token |-> p5.nextToken,
                                               expires |-> p5.now + SessionTTL]},
                         !.nextToken = @ + 1,
                         !.last = [route |-> "login", status |-> 200, items |-> <<>>]]
       ELSE p5' = [p5 EXCEPT
                      !.last = [route |-> "login", status |-> 401, items |-> <<>>]]
    /\ UNCHANGED <<storeVars, activeTokens, last, load, srv, page>>

\* The requests to the routes behind the auth gate.
P5Requests ==
    {[kind |-> "all", id |-> 0, payload |-> PayloadA],
     [kind |-> "create", id |-> 0, payload |-> PayloadA],
     [kind |-> "update", id |-> 4, payload |-> PayloadB],
     [kind |-> "delete", id |-> 5, payload |-> PayloadA]}

\* A request to a route behind the gate arrives: verifyToken, 401 or
\* `await readDB()`.
P5Request(token, op) ==
    /\ p5.pc = "listening"
    /\ LET v == VerifyTokenValue(p5.sessions, token, p5.now)
       IN  IF ~v.user
           THEN p5' = [p5 EXCEPT
                          !.sessions = v.sessions,
                          !.last = [route |-> op.kind, status |-> 401, items |-> <<>>]]
           ELSE /\ p5.n < MaxSrvReqs
                /\ p5' = [p5 EXCEPT
                             !.n = @ + 1,
                             !.hs = @ \cup {[n |-> p5.n + 1, op |-> op, pc |-> "read",
                                             data |-> NoDoc, status |-> 0]}]
    /\ UNCHANGED <<storeVars, activeTokens, last, load, srv, page>>

\* readDB(): the parsed db.json; when reading or parsing throws, the default
\* data, written over db.json.
P5ReadDB(raw) ==
    IF JSONparse(raw).ok
    THEN [db |-> JSONparse(raw).val, file |-> raw]
    ELSE [db |-> P5Default, file |-> JSONstringify(P5Default)]

\* readDB of an admin request returns and the route runs on the Document
\* it got: GET all answers; create, update and delete modify their copy and
\* call writeDB, or answer 404.
P5HandlerRead(h) ==
    /\ h \in p5.hs
    /\ h.pc = "read"
    /\ LET r   == P5ReadDB(p5.db)
           op  == IF h.op.kind = "create" THEN [h.op EXCEPT !.id = p5.nextId] ELSE h.op
           out == IF op.kind = "all" THEN [db |-> r.db, status |-> 200]
                  ELSE SrvAdminOp(op, r.db)
       IN  IF op.kind = "all" \/ out.status = 404
           THEN p5' = [p5 EXCEPT
                          !.db = r.file,
                          !.hs = @ \ {h},
                          !.last = [route |-> op.kind, status |-> out.status,
                                    items |-> IF op.kind = "all" THEN r.db.items
                                              ELSE <<>>]]
           ELSE p5' = [p5 EXCEPT
                          !.db = r.file,
                          !.nextId = IF op.kind = "create" THEN @ + 1 ELSE @,
                          !.hs = (@ \ {h}) \cup
                                 {[h EXCEPT !.op = op, !.pc = "open",
                                            !.data = out.db, !.status = out.status]}]
    /\ UNCHANGED <<storeVars, activeTokens, last, load, srv, page>>

\* fs.writeFile(DB_PATH, text) opens db.json for writing, which empties it.
P5WriteOpen(h) ==
    /\ h \in p5.hs
    /\ h.pc = "open"
    /\ p5' = [p5 EXCEPT !.db = Corrupt,
                        !.hs = (@ \ {h}) \cup {[h EXCEPT !.pc = "write"]}]
    /\ UNCHANGED <<storeVars, activeTokens, last, load, srv, page>>

\* The text is in db.json, `await writeDB(db)` returns and the route
\* answers.
P5WriteDone(h) ==
    /\ h \in p5.hs
    /\ h.pc = "write"
    /\ p5' = [p5 EXCEPT !.db = JSONstringify(h.data),
                        !.hs = @ \ {h},
                        !.last = [route |-> h.op.kind, status |-> h.status,
                                  items |-> <<>>]]
    /\ UNCHANGED <<storeVars, activeTokens, last, load, srv, page>>

P5Next ==
    \/ \E pin \in SrvPins : P5Login(pin)
    \/ \E t \in 0..MaxTokens, op \in P5Requests : P5Request(t, op)
    \/ \E h \in p5.hs : P5HandlerRead(h)
    \/ \E h \in p5.hs : P5WriteOpen(h)
    \/ \E h \in p5.hs : P5WriteDone(h)
    \/ P5GetPublic

P5Spec == P5Init /\ [][P5Next]_vars

\* ------------------------------------------------------------------ C28
\* C28: a request whose readDB runs while another request's writeDB is in
\* progress gets a complete Document: db.json parses whenever a readDB
\* reads it, so the branch that regenerates the defaults is not entered;
\* and no default item is ever in db.json or in the Document a handler is
\* about to write.
C28_Step ==
    /\ (P5GetPublic \/ \E h \in p5.hs : P5HandlerRead(h)) => JSONparse(p5.db).ok
    /\ p5'.db.kind = "json" =>
          Ids(p5'.db.val.items) \cap Ids(P5Default.items) = {}
    /\ \A h \in p5'.hs :
          h.pc # "read" => Ids(h.data.items) \cap Ids(P5Default.items) = {}

C28_NeverRegenerates == [][C28_Step]_vars

\* ------------------------------------------------------------------ part_006: the read-only endpoints
\* (variant: the listing is sent once the queue has drained)
GetAllAfterDrain(h) ==
    /\ phase = "serving"
    /\ ~writing
    /\ IF ~RequireAuth(h, activeTokens) THEN Answer("all", 401)
       ELSE /\ last' = [route |-> "all", status |-> 200, items |-> DB.items]
            /\ UNCHANGED <<storeVars, activeTokens, load, srv, p5, page>>

\* app.get("/api/gpts/all", requireAuth, ...): res.json of DB.settings and
\* DB.items; no enqueueWrite.  Reading a property of null throws and the
\* framework answers 500; a DB without items gives a body without items.
GetAll(h) ==
    /\ phase = "serving"
    /\ IF ~RequireAuth(h, activeTokens) THEN Answer("all", 401)
       ELSE /\ last' = IF DB = JsNull
                       THEN [route |-> "all", status |-> 500, items |-> <<>>]
                       ELSE [route |-> "all", status |-> 200,
                             items |-> IF IsObject(DB) /\ "items" \in DOMAIN DB
                                       THEN DB.items ELSE <<>>]
            /\ UNCHANGED <<storeVars, activeTokens, load, srv, p5, page>>

\* part_006 answering listings while creates, updates and deletes are
\* queued and persisted.
ReadNext ==
    \/ LoadDB /\ UNCHANGED ext
    \/ \E pin \in Pins : Login(pin)
    \/ \E h \in Headers, b \in Bodies : ApiCreate(h, b)
    \/ \E h \in Headers, id \in ApiIds, b \in Bodies : ApiUpdate(h, id, b)
    \/ \E h \in Headers, id \in ApiIds : ApiDelete(h, id)
    \/ \E i \in 1..Len(acts) : FsWriteDone(i) /\ UNCHANGED ext
    \/ \E i \in 1..Len(acts) : FsRenameDone(i) /\ UNCHANGED ext
    \/ GetPublic
    \/ \E h \in Headers : GetAll(h)

ReadSpec == Init /\ [][ReadNext]_vars

\* ------------------------------------------------------------------ C25
\* C25: GET /api/gpts/public and GET /api/gpts/all leave the Document, the
\* queue, the pending promises, db.json and its temp file, and the tokens as
\* they were (enqueueWrite is not called); the response holds the items of
\* the in-memory Document as it is at that moment (the live ones, for the
\* public listing); and while the server listens both can be answered at
\* once, whether or not the queue is being processed or a persist is in
\* flight.
C25_Step ==
    /\ GetPublic =>
          /\ UNCHANGED <<storeVars, activeTokens>>
          /\ last' = [route |-> "public", status |-> 200,
                      items |-> PublicItems(DB.items)]
    /\ \A h \in Headers :
          GetAll(h) =>
              /\ UNCHANGED <<storeVars, activeTokens>>
              /\ last' = IF RequireAuth(h, activeTokens)
                         THEN [route |-> "all", status |-> 200, items |-> DB.items]
                         ELSE [route |-> "all", status |-> 401, items |-> <<>>]
    /\ (last' # last /\ last'.route \in {"public", "all"}) =>
          UNCHANGED <<storeVars, activeTokens>>
    /\ phase = "serving" =>
          /\ ENABLED GetPublic
          /\ \A h \in Headers : ENABLED GetAll(h)

C25_ReadsLeaveStore == [][C25_Step]_vars

\* GET /api/gpts/all was answered while the persist of a create was in
\* flight: the response holds the created item, which db.json does not hold
\* yet, and the entry's promise is still pending.
C25_Witness ==
    /\ last.route = "all"
    /\ last.status = 200
    /\ writing
    /\ LoopActs # {}
    /\ last.items = DB.items
    /\ last.items # <<>>
    /\ files[DB_PATH] # JSONstringify(DB)
    /\ \E r \in DOMAIN reqs : reqs[r].st = "pending"

\* ------------------------------------------------------------------ server.js: allowSubmit
\* The clock values of a run of the rate limit: 0..MaxTicks half windows.
MaxTicks == 2

\* const now = Date.now(), windowMs = 5 * 60 * 1000, maxHits = 5
windowMs == 300000
maxHits == 5

\* The source addresses submissions come from.
Ips == {"ip1", "ip2"}

\* The submissions let through in a run.
MaxSubmits == 7

\* The clock moves in steps of half a window, so that a hit is met inside
\* its window and exactly at its end.
RateStep == windowMs \div 2

\* (variant: one hit more is let through)
AllowSubmitOneMore(hits, ip, now) ==
    LET arr == SelectSeq(hits[ip], LAMBDA ts : now - ts < windowMs)
    IN  IF Len(arr) > maxHits THEN [ok |-> FALSE, hits |-> hits]
        ELSE [ok |-> TRUE, hits |-> [hits EXCEPT ![ip] = Append(arr, now)]]

\* allowSubmit(ip): the hits of ip younger than the window; false when
\* there are maxHits of them, the Map being left as it is; otherwise now is
\* pushed and the filtered array is set for ip.  (hits[ip] = <<>> stands
\* for a Map without the key: `submitHits.get(ip) || []`.)
AllowSubmit(hits, ip, now) ==
    LET arr == SelectSeq(hits[ip], LAMBDA ts : now - ts < windowMs)
    IN  IF Len(arr) >= maxHits THEN [ok |-> FALSE, hits |-> hits]
        ELSE [ok |-> TRUE, hits |-> [hits EXCEPT ![ip] = Append(arr, now)]]

\* Date.now() moved on by half a window.
RateTick ==
    /\ srv.pc = "listening"
    /\ srv.now < MaxTicks * RateStep
    /\ srv' = [srv EXCEPT !.now = @ + RateStep]
    /\ UNCHANGED <<storeVars, activeTokens, last, load, p5, page>>

\* POST /api/gpts/submit from ip: allowSubmit, 429 when it says no; then
\* parseBody and the checks of title and url (400); then the handler awaits
\* readJSON (one submission of a run has a body that passes the checks).
\* srv.admits keeps, for the properties, the times at which allowSubmit
\* returned true for each ip.
SrvSubmit(ip, body) ==
    /\ srv.pc = "listening"
    /\ LET a  == AllowSubmit(srv.submitHits, ip, srv.now)
           op == [kind |-> "submit", id |-> 0, payload |-> body]
       IN  IF ~a.ok
           THEN srv' = [srv EXCEPT
                           !.last = [route |-> "submit", status |-> 429, items |-> <<>>]]
           ELSE IF ~SubmitOk(body)
           THEN /\ Len(srv.admits["ip1"]) + Len(srv.admits["ip2"]) < MaxSubmits
                /\ srv' = [srv EXCEPT
                           !.submitHits = a.hits,
                           !.admits[ip] = Append(@, srv.now),
                           !.last = [route |-> "submit", status |-> 400, items |-> <<>>]]
           ELSE /\ Len(srv.admits["ip1"]) + Len(srv.admits["ip2"]) < MaxSubmits
                /\ srv.hs = {} /\ srv.log = {}
                /\ srv' = [srv EXCEPT
                              !.submitHits = a.hits,
                              !.admits[ip] = Append(@, srv.now),
                              !.last = [route |-> "submit", status |-> 0, items |-> <<>>],
                              !.hs = @ \cup
                                 {[n |-> Cardinality(srv.hs) + Cardinality(srv.log) + 1,
                                   op |-> op, pc |-> "read", data |-> Absent,
                                   status |-> 0]}]
    /\ UNCHANGED <<storeVars, activeTokens, last, load, p5, page>>

RateNext ==
    \/ SrvReadJSON
    \/ RateTick
    \/ \E ip \in Ips, body \in SubmitBodies : SrvSubmit(ip, body)
    \/ \E h \in srv.hs : SrvHandlerRead(h)
    \/ \E h \in srv.hs : SrvHandlerWritten(h)
    \/ \E h \in srv.hs : SrvHandlerRenamed(h)

RateSpec == SrvInit /\ [][RateNext]_vars

\* ------------------------------------------------------------------ C31
\* The instants of a run.
Instants == {k * RateStep : k \in 0..MaxTicks}

\* The calls allowSubmit(ip) that returned true in (t - windowMs, t].
AdmitsIn(sv, ip, t) ==
    {i \in 1..Len(sv.admits[ip]) : t - windowMs < sv.admits[ip][i] /\ sv.admits[ip][i] <= t}

\* The hits of the other addresses forgotten.
OnlyOf(hits, ip) == [j \in Ips |-> IF j = ip THEN hits[j] ELSE <<>>]

\* C31: for every ip and every instant t at most maxHits calls of
\* allowSubmit(ip) returned true in (t - windowMs, t]; a call that returns
\* false leaves submitHits as it was and is answered 429 whatever the body
\* holds, no handler being started and db.json not being read; the decision
\* for ip is the one taken on the hits of ip alone, and a call for ip
\* leaves the hits of every other ip as they were.
C31_Step ==
    /\ \A ip \in Ips, t \in Instants : Cardinality(AdmitsIn(srv', ip, t)) <= maxHits
    /\ \A ip \in Ips, body \in SubmitBodies :
          SrvSubmit(ip, body) =>
              /\ AllowSubmit(srv.submitHits, ip, srv.now).ok
                    = AllowSubmit(OnlyOf(srv.submitHits, ip), ip, srv.now).ok
              /\ \A j \in Ips \ {ip} :
                    /\ srv'.submitHits[j] = srv.submitHits[j]
                    /\ srv'.admits[j] = srv.admits[j]
              /\ ~AllowSubmit(srv.submitHits, ip, srv.now).ok =>
                    /\ srv'.last.status = 429
                    /\ srv'.submitHits = srv.submitHits
                    /\ srv'.admits = srv.admits
                    /\ srv'.hs = srv.hs
                    /\ srv'.db = srv.db
              /\ AllowSubmit(srv.submitHits, ip, srv.now).ok =>
                    /\ srv'.last.status # 429
                    /\ srv'.admits[ip] = Append(srv.admits[ip], srv.now)

C31_AtMostMaxHits == [][C31_Step]_vars

\* ip1 was let through maxHits times, first at the start and last half a
\* window later, and was then turned away with 429; ip2 had been let through
\* meanwhile, and a submission let through is in db.json.
C31_Witness ==
    /\ srv.last = [route |-> "submit", status |-> 429, items |-> <<>>]
    /\ srv.now = RateStep
    /\ Len(srv.admits["ip1"]) = maxHits
    /\ srv.admits["ip1"][1] = 0
    /\ srv.admits["ip1"][maxHits] = RateStep
    /\ srv.submitHits["ip1"] = srv.admits["ip1"]
    /\ srv.admits["ip2"] # <<>>
    /\ \E e \in srv.log : e.status = 201

\* ------------------------------------------------------------------ server.js: sessions
\* The admin requests sent while sessions come and go: creates and
\* deletes.
SessionOps == {op \in SrvOps : op.kind # "update"}

\* Logins, the clock and the admin routes behind the gate.
SessionNext ==
    \/ SrvReadJSON
    \/ SrvTick
    \/ \E pin \in SrvPins : SrvLogin(pin)
    \/ \E c \in SrvCreds, op \in SessionOps, ok \in BOOLEAN : SrvAdmin(c, op, ok)

SessionSpec == SrvInit /\ [][SessionNext]_vars

\* ------------------------------------------------------------------ C32
\* The sessions of token t.
SessionsOf(sv, t) == {s \in sv.sessions : s.token = t}

\* C32: a session is made by a login with the right PIN alone, for a token
\* not returned before, and expires SessionTTL after that login, which no
\* later step changes; a request at the admin gate is let through (it is not
\* answered 401) exactly when the token it shows has a session whose login
\* was less than SessionTTL before; when the shown token has a session that
\* has expired, the session is removed; the clock does not go back, and a
\* token returned earlier that is not acceptable now is not acceptable after
\* any step.
C32_Step ==
    /\ \A s \in srv'.sessions \ srv.sessions :
          /\ SrvLogin(ADMIN_PIN)
          /\ s = [token |-> srv.nextToken, expires |-> srv.now + SessionTTL]
          /\ srv'.nextToken = srv.nextToken + 1
    /\ \A s \in srv.sessions : s.token # 0 /\ s.token < srv.nextToken
    /\ \A c \in SrvCreds, op \in SessionOps, ok \in BOOLEAN :
          SrvAdmin(c, op, ok) =>
              /\ srv'.last.status # 401
                    <=> \E s \in SessionsOf(srv, Presented(c)) :
                           srv.now - (s.expires - SessionTTL) < SessionTTL
              /\ (\E s \in SessionsOf(srv, Presented(c)) : srv.now >= s.expires)
                    => SessionsOf(srv', Presented(c)) = {}
    /\ srv'.now >= srv.now
    /\ \A t \in 1..MaxTokens :
          (t < srv.nextToken /\ ~SrvValidIn(srv, t)) => ~SrvValidIn(srv', t)

C32_TokenValidForAnHour == [][C32_Step]_vars

\* A token was accepted within the hour of its login (an item was created
\* with it); shown again at its expiry it was answered 401 and its session
\* is gone.
C32_Witness ==
    /\ srv.pc = "listening"
    /\ srv.nextToken > 1
    /\ srv.now = SessionTTL
    /\ srv.sessions = {}
    /\ srv.last.status = 401
    /\ JSONparse(srv.db).ok
    /\ Len(JSONparse(srv.db).val.items) > Len(SeedDB.items)

\* ------------------------------------------------------------------ part_006: updates of stored items
\* A Document whose items carry all their properties, and one that
\* coerceItemPayload does not know (submittedBy).
RichDB ==
    [settings |-> [title |-> "GPTMart"],
     items |-> <<[id |-> 1, createdAt |-> 10, title |-> "a", url |-> "u", icon |-> "i",
                  desc |-> "d", categories |-> <<"c">>, tags |-> <<>>,
                  featured |-> FALSE, status |-> "live", submittedBy |-> "x"],
                 [id |-> 2, createdAt |-> 20, title |-> "b", url |-> "v", icon |-> "",
                  desc |-> "", categories |-> <<>>, tags |-> <<"t">>,
                  featured |-> TRUE, status |-> "hidden"]>>]

\* The bodies of the update requests: with status hidden, without status
\* and featured, with a status that is neither live nor hidden, with an id
\* and a createdAt of its own, and with a blank title.
UpdateBodies ==
    {[title |-> <<" ", "n">>, url |-> <<"w">>, status |-> "hidden", featured |-> TRUE,
      categories |-> [arr |-> << <<"x", " ">>, <<" ">> >>],
      tags |-> [str |-> <<"p", ",", " ", "q", ",">>]],
     [title |-> <<"n">>, url |-> <<"w">>],
     [title |-> <<"n">>, url |-> <<"w">>, status |-> "pending"],
     [title |-> <<"n">>, url |-> <<"w">>, status |-> "Hidden", id |-> 9, createdAt |-> 99],
     [title |-> <<" ">>, url |-> <<"w">>, status |-> "hidden"]}

\* The Documents db.json may hold at the start: RichDB, its items the other
\* way round, and its second item alone.
RichDocs ==
    {RichDB,
     [RichDB EXCEPT !.items = <<@[2], @[1]>>],
     [RichDB EXCEPT !.items = <<@[2]>>]}

\* The server is started on a db.json that holds one of RichDocs.
UpdateInit ==
    /\ ExtIdle
    /\ DB = DefaultDB
    /\ writing = FALSE
    /\ queue = <<>>
    /\ acts = <<>>
    /\ \E d \in RichDocs :
          files = [p \in Paths |-> IF p = DB_PATH THEN JSONstringify(d) ELSE Absent]
    /\ reqs = <<>>
    /\ applied = <<>>
    /\ nextId = 3
    /\ phase = "boot"
    /\ loaded = NoDoc

UpdateNext ==
    \/ LoadDB /\ UNCHANGED ext
    \/ \E pin \in Pins : Login(pin)
    \/ \E h \in Headers, id \in ApiIds, b \in UpdateBodies : ApiUpdate(h, id, b)
    \/ \E i \in 1..Len(acts) : FsWriteDone(i) /\ UNCHANGED ext
    \/ \E i \in 1..Len(acts) : FsRenameDone(i) /\ UNCHANGED ext

UpdateSpec == UpdateInit /\ [][UpdateNext]_vars

\* ------------------------------------------------------------------ C33
\* The properties coerceItemPayload returns.
PayloadFields == {"title", "url", "icon", "desc", "categories", "tags", "featured", "status"}

\* C33: the payload an update request hands to its mutator has the eight
\* properties, its status being "hidden" exactly when the body's status is
\* "hidden" and "live" otherwise, also for a body without status; and an
\* update that finds its item leaves an item that has the payload's value
\* for each of the eight and the old item's value for every other property
\* (id, createdAt, ...), at the same place, every other item and the
\* settings being as before.
C33_Step ==
    /\ \A h \in Headers, id \in ApiIds, b \in UpdateBodies :
          (Len(reqs') > Len(reqs) /\ ApiUpdate(h, id, b)) =>
              LET pl == reqs'[Len(reqs')].payload
              IN  /\ DOMAIN pl = PayloadFields
                  /\ pl.status \in {"live", "hidden"}
                  /\ pl.status = "hidden" <=> ("status" \in DOMAIN b /\ b.status = "hidden")
                  /\ pl.title = Text(Trim(b.title)) /\ pl.title # ""
                  /\ pl.url = Text(Trim(b.url)) /\ pl.url # ""
                  /\ pl.featured <=> ("featured" \in DOMAIN b /\ b.featured)
                  /\ \A i \in 1..Len(pl.categories) : pl.categories[i] # ""
                  /\ reqs'[Len(reqs')].id = id
    /\ \A r \in Range(applied') :
          (reqs'[r].kind = "update" /\ reqs'[r].id \in Ids(reqs'[r].before.items)) =>
              LET old == reqs'[r].before.items
                  new == reqs'[r].after.items
                  p   == Pos(old, reqs'[r].id)
              IN  /\ ~Thrown(r)'
                  /\ Len(new) = Len(old)
                  /\ \A i \in 1..Len(old) : i # p => new[i] = old[i]
                  /\ DOMAIN new[p] = DOMAIN old[p] \cup PayloadFields
                  /\ \A f \in PayloadFields : new[p][f] = reqs'[r].payload[f]
                  /\ \A f \in DOMAIN old[p] \ PayloadFields : new[p][f] = old[p][f]
                  /\ new[p].id = reqs'[r].id
                  /\ reqs'[r].after.settings = reqs'[r].before.settings

C33_UpdateReplacesPayloadFields == [][C33_Step]_vars

\* The hidden, featured second item was updated by a body without status
\* and featured: it is live and not featured, has the new title and url and
\* its id and createdAt; the first item is as it was; the update resolved
\* and db.json holds the Document.
C33_Witness ==
    /\ Len(DB.items) = 2
    /\ DB.items[1] = RichDB.items[1]
    /\ DB.items[2] = [id |-> 2, createdAt |-> 20, title |-> "n", url |-> "w", icon |-> "",
                      desc |-> "", categories |-> <<>>, tags |-> <<>>,
                      featured |-> FALSE, status |-> "live"]
    /\ DB.settings = RichDB.settings
    /\ files[DB_PATH] = JSONstringify(DB)
    /\ \E r \in DOMAIN reqs : reqs[r].kind = "update" /\ reqs[r].st = "resolved"

\* ------------------------------------------------------------------ C34
\* C34: whenever control is back at the event loop, a queue that is not
\* empty implies that writing is true; writing is true exactly while a drain
\* loop is suspended in the persist of an entry, so it is false again once
\* the loop has left, also when mutators threw or persists failed on the
\* way; and every entry whose promise is pending waits in the queue of such
\* a loop or is the entry being persisted.
C34_FlagFollowsLoop ==
    /\ queue # <<>> => writing
    /\ writing <=> LoopActs # {}
    /\ \A r \in DOMAIN reqs :
          reqs[r].st = "pending" =>
              /\ writing
              /\ \/ r \in Range(queue)
                 \/ \E i \in LoopActs : acts[i].entry = r
    /\ \A r \in Range(queue) : reqs[r].st = "pending"

\* The loop has left after an entry whose persist failed and an entry whose
\* mutator threw: the flag is false, the queue is empty and all three
\* promises are settled.
C34_Witness ==
    /\ ~writing
    /\ queue = <<>>
    /\ LoopActs = {}
    /\ Len(reqs) = 3
    /\ \A r \in DOMAIN reqs : Settled(r)
    /\ \E r \in DOMAIN reqs : PersistFailed(r)
    /\ \E r \in DOMAIN reqs : Thrown(r)
    /\ Thrown(3) \/ PersistFailed(3)

\* ---------------------------------------------------------------------------
\* The browser pages with a clear button: src/unnamed/part_000, part_002 and
\* part_004.  page.GPTS is window.GPTS, page.CUSTOM_GPTS is window.CUSTOM_GPTS
\* and page.stored is the localStorage entry under STORAGE_KEY.  An entry's
\* `by` is the identity of the object (who made it): no code reads it.
ClearParts == {"part_000", "part_002", "part_004"}

\* The most form submissions in one behaviour.
MaxAdds == 2

\* The built-in catalog the data script assigns to window.GPTS: entries with
\* the fields cardHTML reads.  desc stands for desc, url, icon and categories.
Entry(title, desc, by) == [title |-> title, desc |-> desc, by |-> by]
Catalog == <<Entry("a", "x", "builtin"), Entry("b", "y", "builtin")>>

\* What the form's fields hold after trim(): "" is a field left blank.
FormTitles == {"", "a", "c"}
FormDescs == {"x", "z"}

\* JSON.stringify(j) of an entry: the text of its properties in order.
StringifyEntry(g) == <<"title", g.title, "desc", g.desc>>

\* loadCustom: JSON.parse(localStorage.getItem(STORAGE_KEY)) || [], [] when
\* it throws.
LoadCustom(st) == IF st.kind = "json" THEN st.val ELSE <<>>

\* saveCustom: localStorage.setItem(STORAGE_KEY, JSON.stringify(items || [])),
\* the error swallowed when setItem throws (ok = FALSE).
SaveCustom(st, items, ok) == IF ok THEN [kind |-> "json", val |-> items] ELSE st

\* DOMContentLoaded: GPTS.push(...CUSTOM_GPTS); in part_002 only the custom
\* entries whose title no entry of GPTS has.
MergeCustom(part, gpts, custom) ==
    IF part = "part_002"
    THEN LET existingTitles == {gpts[k].title : k \in 1..Len(gpts)}
         IN  gpts \o SelectSeq(custom, LAMBDA c : c.title \notin existingTitles)
    ELSE gpts \o custom

\* (variant: the clear removes the objects the form made, whatever they hold.)
ClearFilterByMaker(part, gpts, custom) ==
    SelectSeq(gpts, LAMBDA g : g.by # "form")

\* The clear handler's filter.  part_000 and part_004 splice out every entry
\* whose JSON.stringify is that of a custom entry; part_002 drops every entry
\* whose title is a custom entry's title.
ClearFilter(part, gpts, custom) ==
    IF part = "part_002"
    THEN LET customGptTitles == {custom[k].title : k \in 1..Len(custom)}
         IN  SelectSeq(gpts, LAMBDA g : g.title \notin customGptTitles)
    ELSE LET customSet == {StringifyEntry(custom[k]) : k \in 1..Len(custom)}
         IN  SelectSeq(gpts, LAMBDA g : StringifyEntry(g) \notin customSet)

FrontInit ==
    /\ DB = DefaultDB
    /\ writing = FALSE
    /\ queue = <<>>
    /\ acts = <<>>
    /\ files = [p \in Paths |-> Absent]
    /\ reqs = <<>>
    /\ applied = <<>>
    /\ nextId = 2
    /\ phase = "off"
    /\ loaded = NoDoc
    /\ activeTokens = {}
    /\ last = NoResponse
    /\ load = LoadIdle
    /\ srv = SrvIdle
    /\ p5 = P5Idle
    /\ \E part \in ClearParts : page = [PageIdle EXCEPT !.part = part]

\* The page is opened or reloaded: the data script assigns the catalog, then
\* the DOMContentLoaded handler merges the stored entries.
PageLoad ==
    /\ page.part \in ClearParts
    /\ LET custom == LoadCustom(page.stored)
       IN  page' = [page EXCEPT !.pc = "ready",
                                !.GPTS = MergeCustom(page.part, Catalog, custom),
                                !.CUSTOM_GPTS = custom,
                                !.ev = "load"]
    /\ UNCHANGED <<storeVars, activeTokens, last, load, srv, p5>>

\* The form's submit handler; ok tells whether localStorage.setItem succeeds.
FormSubmit(title, desc, ok) ==
    /\ page.part \in ClearParts
    /\ page.pc = "ready"
    /\ Len(page.added) < MaxAdds
    /\ IF title = ""
           THEN page' = [page EXCEPT !.ev = "rejected"]
           ELSE LET newItem == Entry(title, desc, "form")
                    custom == Append(page.CUSTOM_GPTS, newItem)
                IN  page' = [page EXCEPT !.GPTS = Append(@, newItem),
                                         !.CUSTOM_GPTS = custom,
                                         !.stored = SaveCustom(@, custom, ok),
                                         !.added = Append(@, newItem),
                                         !.failed = @ \/ ~ok,
                                         !.ev = "submit"]
    /\ UNCHANGED <<storeVars, activeTokens, last, load, srv, p5>>

\* The click on 'clear custom'; confirmed is the answer to confirm().
\* part_002 returns before asking when CUSTOM_GPTS is empty.
ClearClick(confirmed, ok) ==
    /\ page.part \in ClearParts
    /\ page.pc = "ready"
    /\ IF (page.part = "part_002" /\ page.CUSTOM_GPTS = <<>>) \/ ~confirmed
           THEN page' = [page EXCEPT !.ev = "kept"]
           ELSE page' = [page EXCEPT
                    !.GPTS = ClearFilter(page.part, @, page.CUSTOM_GPTS),
                    !.CUSTOM_GPTS = <<>>,
                    !.stored = SaveCustom(@, <<>>, ok),
                    !.failed = @ \/ ~ok,
                    !.cleared = TRUE,
                    !.ev = "clear"]
    /\ UNCHANGED <<storeVars, activeTokens, last, load, srv, p5>>

FrontNext ==
    \/ PageLoad
    \/ \E title \in FormTitles, desc \in FormDescs, ok \in BOOLEAN :
           FormSubmit(title, desc, ok)
    \/ \E confirmed \in BOOLEAN, ok \in BOOLEAN : ClearClick(confirmed, ok)

FrontSpec == FrontInit /\ [][FrontNext]_vars

\* C35: a confirmed click on 'clear custom' removes from GPTS only what the
\* user added: every built-in entry that was in GPTS is still in GPTS, no
\* entry made by the form remains, CUSTOM_GPTS is empty and, when the write
\* succeeds, so is the stored list; for every sequence of adds before it.
C35_Step ==
    \A ok \in BOOLEAN :
        (page.pc = "ready" /\ ClearClick(TRUE, ok) /\ page'.ev = "clear") =>
            /\ \A k \in 1..Len(page.GPTS) :
                   page.GPTS[k].by = "builtin" =>
                       \E j \in 1..Len(page'.GPTS) : page'.GPTS[j] = page.GPTS[k]
            /\ \A j \in 1..Len(page'.GPTS) : page'.GPTS[j].by = "builtin"
            /\ page'.CUSTOM_GPTS = <<>>
            /\ ok => page'.stored = SaveCustom(StorageNull, <<>>, TRUE)

C35_ClearRemovesOnlyCustom == [][C35_Step]_vars

\* C36: in part_002, while no clear has run and every localStorage write has
\* succeeded, after each reload every item added through the form is in
\* window.GPTS exactly once (an item submitted n times, n times), and after
\* each form submission the stored list is window.CUSTOM_GPTS.
C36_AddedOnceAfterReload ==
    (page.part = "part_002" /\ ~page.cleared /\ ~page.failed) =>
        /\ page.ev = "load" =>
               \A i \in 1..Len(page.added) :
                   Cardinality({k \in 1..Len(page.GPTS) : page.GPTS[k] = page.added[i]})
                       = Cardinality({j \in 1..Len(page.added) : page.added[j] = page.added[i]})
        /\ page.ev = "submit" =>
               page.stored = SaveCustom(StorageNull, page.CUSTOM_GPTS, TRUE)

\* ---------------------------------------------------------------------------
\* The data loader of src/unnamed/part_001.  page.winGPTS and
\* page.winLANGUAGES are window.GPTS and window.LANGUAGES by kind of value:
\* "undefined", "empty" (the [] default), "data" (the array a data script
\* assigned) or "object" (a value that is not an array).  page.scripts[i] is
\* what the file at candidates[i] does when it is requested.
candidates == <<"./data/gpts.js?v=6", "./gpts.js?v=6">>

maxMs == 4000
PollMs == 50

\* "missing": the request fails (onerror).  "data": the script assigns both
\* arrays.  "gptsOnly": it assigns window.GPTS and not window.LANGUAGES, as
\* src/gpts.js does.  "nothing": it runs and assigns neither.  "object": it
\* assigns window.GPTS a value that is not an array.
ScriptKinds == {"missing", "data", "gptsOnly", "nothing", "object"}

ArrayisArray(v) == v \in {"empty", "data"}

\* Array.isArray(window.GPTS) ? window.GPTS : []
DefaultArray(v) == IF ArrayisArray(v) THEN v ELSE "empty"

\* The window after the script of kind k has run.
RunScript(k, pg) ==
    CASE k = "data"     -> [pg EXCEPT !.winGPTS = "data", !.winLANGUAGES = "data"]
      [] k = "gptsOnly" -> [pg EXCEPT !.winGPTS = "data"]
      [] k = "object"   -> [pg EXCEPT !.winGPTS = "object"]
      [] OTHER          -> pg

\* The catch of the for loop: the next candidate, or return false after the
\* last one.
NextCandidate(pg) ==
    IF pg.at < Len(candidates)
    THEN [pg EXCEPT !.pc = "loading", !.at = @ + 1, !.elapsed = 0]
    ELSE [pg EXCEPT !.pc = "done", !.ret = "false", !.elapsed = 0]

LoaderInit ==
    /\ DB = DefaultDB
    /\ writing = FALSE
    /\ queue = <<>>
    /\ acts = <<>>
    /\ files = [p \in Paths |-> Absent]
    /\ reqs = <<>>
    /\ applied = <<>>
    /\ nextId = 2
    /\ phase = "off"
    /\ loaded = NoDoc
    /\ activeTokens = {}
    /\ last = NoResponse
    /\ load = LoadIdle
    /\ srv = SrvIdle
    /\ p5 = P5Idle
    /\ \E sc \in [1..Len(candidates) -> ScriptKinds] :
           page = [PageIdle EXCEPT !.part = "part_001", !.scripts = sc]

\* ensureDataLoaded up to its first await: the defaults, then
\* loadScript(candidates[0]).
EnsureDataLoaded ==
    /\ page.part = "part_001"
    /\ page.pc = "off"
    /\ page' = [page EXCEPT !.pc = "loading", !.at = 1,
                            !.winGPTS = DefaultArray(@),
                            !.winLANGUAGES = DefaultArray(@)]
    /\ UNCHANGED <<storeVars, activeTokens, last, load, srv, p5>>

\* The script element settles: onerror rejects and the catch moves on;
\* onload resolves after the script ran, and waitForData() starts.
ScriptSettled ==
    /\ page.part = "part_001"
    /\ page.pc = "loading"
    /\ LET k == page.scripts[page.at]
       IN  IF k = "missing"
           THEN page' = NextCandidate(page)
           ELSE page' = [RunScript(k, page) EXCEPT !.pc = "waiting", !.elapsed = 0]
    /\ UNCHANGED <<storeVars, activeTokens, last, load, srv, p5>>

\* One call of tick() in waitForData: resolve (return true), reject (the
\* catch moves on), or setTimeout(tick, 50).
WaitTick ==
    /\ page.part = "part_001"
    /\ page.pc = "waiting"
    /\ page' = IF ArrayisArray(page.winGPTS) /\ ArrayisArray(page.winLANGUAGES)
                   THEN [page EXCEPT !.pc = "done", !.ret = "true"]
               ELSE IF page.elapsed > maxMs
                   THEN NextCandidate(page)
               ELSE [page EXCEPT !.elapsed = @ + PollMs]
    /\ UNCHANGED <<storeVars, activeTokens, last, load, srv, p5>>

LoaderNext ==
    \/ EnsureDataLoaded
    \/ ScriptSettled
    \/ WaitTick

LoaderSpec == LoaderInit /\ [][LoaderNext]_vars

\* The candidates whose script provides the GPTS and LANGUAGES data.
Providing == {i \in 1..Len(candidates) : page.scripts[i] = "data"}

\* C37: when ensureDataLoaded has returned, window.GPTS and window.LANGUAGES
\* are arrays; it returned true exactly when some candidate provided the
\* data, having stopped at the first such candidate in order, and false
\* exactly when no candidate did.
C37_ReturnsTrueOnlyWithData ==
    (page.part = "part_001" /\ page.pc = "done") =>
        /\ ArrayisArray(page.winGPTS) /\ ArrayisArray(page.winLANGUAGES)
        /\ page.ret = "true" <=> Providing # {}
        /\ page.ret = "true" =>
               /\ page.at \in Providing
               /\ \A j \in Providing : page.at <= j
        /\ page.ret = "false" <=> Providing = {}

====
